---- MODULE Spec2Model ----
(***************************************************************************)
(* E2EE folder metadata engine of the desktop sync client.                 *)
(*                                                                         *)
(*   - FolderMetadata (src/src/libsync/foldermetadata.cpp): the Model and  *)
(*     its setup from a downloaded document, including the lookup of the   *)
(*     top-level folder's keys for a nested folder.                        *)
(*   - FetchAndUploadE2eeFolderMetadataJob                                 *)
(*     (src/src/libsync/fetchanduploade2eefoldermetadatajob.cpp): the      *)
(*     orchestration job: folder id -> fetch -> lock -> upload -> unlock.  *)
(*                                                                         *)
(* Byte strings are abstracted: a key is a natural number (0 is the empty  *)
(* byte array), a wrapped key is a record naming the recipient and the key *)
(* inside, a ciphertext is a record naming the key it was made with,       *)
(* whether its authentication tag matches, and its plaintext.  Q_ASSERT is *)
(* compiled out (release build): the code after each assertion runs.       *)
(***************************************************************************)
EXTENDS Integers, Sequences, FiniteSets, Bags, TLC

(***************************************************************************)
(* Bounds of the model                                                     *)
(***************************************************************************)
MaxCalls == 3          \* calls the owner makes on one job per behaviour

(***************************************************************************)
(* Program constants                                                       *)
(***************************************************************************)
VersionUndefined == -1
Version1 == 0
Version1_2 == 1
Version2_0 == 2
metadataKeySize == 16

\* _account->davUser() and another user of the server
Me == "me"
Other == "bob"

NoKey == 0                          \* QByteArray{} used as a key
NoWrap == [to |-> "", key |-> 0]    \* QByteArray{} used as a wrapped key

\* B64(B64(k)) of the legacy format ("the old wrong way") and its inverse
toBase64Twice(k) == IF k = NoKey THEN NoKey ELSE 1000 + k

fromBase64Twice(v) == IF v >= 1000 THEN v - 1000 ELSE NoKey

\* length in bytes of a key; key 9 stands for a key shorter than 16 bytes
KeySize(k) == IF k = NoKey THEN 0 ELSE IF k = 9 THEN 8 ELSE 16

\* calcSha256 is injective on the keys of the model
calcSha256(k) == 100 + k

(***************************************************************************)
(* State                                                                   *)
(***************************************************************************)
VARIABLES
    \* account and environment
    capability,             \* capabilities().clientSideEncryptionVersion() * 10
    skipChecksumValidation, \* shouldSkipE2eeMetadataChecksumValidation()
    keyCtr,                 \* next value EncryptionHelper::generateRandom returns
    \* the FolderMetadata being set up, and the top-level one it looks up
    fm, fmPhase, rootFm,
    \* FetchAndUploadE2eeFolderMetadataJob members
    _folderId, _folderToken, _folderMetadata, _rootEncryptedFolderInfo,
    _uploadErrorCode, _allowEmptyMetadata, _isFolderLocked, _isUnlockRunning,
    _isNewMetadataCreated, _keepLockedAfterUpdate,
    folderUnlockedSlots,    \* slots connected to folderUnlocked, in connection order
    \* requests in flight (a bag) and the server's lock
    net, srvLock, tokenCtr,
    \* observation of calls and signals
    calls, sig, up, lastFetch,
    \* the last operation on the Model fm, and the Model parsed from its result
    op, reparsed,
    \* the UpdateE2eeFolderUsersMetadataJob of a folder, its sub-jobs, their
    \* requests in flight, and the signals and requests seen so far
    uj,
    \* the EncryptFolderJob of a folder, its journal and its requests in flight
    ej

accountVars == <<capability, skipChecksumValidation, keyCtr>>

fmVars == <<fm, fmPhase, rootFm>>

jobVars == <<_folderId, _folderToken, _folderMetadata, _rootEncryptedFolderInfo,
             _uploadErrorCode, _allowEmptyMetadata, _isFolderLocked, _isUnlockRunning,
             _isNewMetadataCreated, _keepLockedAfterUpdate, folderUnlockedSlots>>

netVars == <<net, srvLock, tokenCtr>>

obsVars == <<calls, sig, up, lastFetch>>

opVars == <<op, reparsed>>

vars == <<accountVars, fmVars, jobVars, netVars, obsVars, opVars, uj, ej>>

(***************************************************************************)
(* EncryptionHelper (clientsideencryption.cpp is not part of the sources:  *)
(* modelled from the specification, section 4.1)                           *)
(***************************************************************************)
\* RSA-OAEP unwrap with the account's private key; empty on failure
decryptStringAsymmetric(w) == IF w.to = Me THEN w.key ELSE NoKey

\* RSA-OAEP wrap for the owner of a public key
encryptStringAsymmetric(owner, k) == [to |-> owner, key |-> k]

\* AES-GCM decrypt + gunzip: succeeds only with the right key and a matching
\* authentication tag; the code sees an empty byte array otherwise
SymmetricDecryptOk(k, c) == k # NoKey /\ c.key = k /\ c.tagOk

(***************************************************************************)
(* Documents as the server returns them                                    *)
(***************************************************************************)
EmptyDoc == [kind |-> "empty"]      \* QByteArray{} / QJsonDocument{}

NoCipher == [key |-> 0, tagOk |-> FALSE, files |-> <<>>, keyChecksums |-> {}]

\* a file record; a directory has an empty mimetype, key, iv and tag
File(enc, name) == [encryptedFilename |-> enc, originalFilename |-> name,
                    encryptionKey |-> 41, initializationVector |-> 42,
                    authenticationTag |-> 43, mimetype |-> "text/plain"]

\* a V2.0 document: users array, one encrypted blob holding files and checksums
DocV2(users, cipher) ==
    [kind |-> "json", version |-> "2.0", users |-> users, cipher |-> cipher,
     metadataKey |-> NoWrap, metadataKeys |-> <<>>, lfiles |-> <<>>,
     checksum |-> [names |-> {}, key |-> NoWrap]]

\* a legacy document: one wrapped key (1.2) or a map of wrapped keys (1.0),
\* every file encrypted on its own, and a checksum
DocLegacy(version, metadataKey, metadataKeys, lfiles, checksum) ==
    [kind |-> "json", version |-> version, users |-> {}, cipher |-> NoCipher,
     metadataKey |-> metadataKey, metadataKeys |-> metadataKeys, lfiles |-> lfiles,
     checksum |-> checksum]

\* users array entry of a document / FolderUser of the Model
FolderUser(userId, wrapped) ==
    [userId |-> userId, certificatePem |-> userId, encryptedMetadataKey |-> wrapped]

\* a legacy file entry: the "encrypted" blob and what it decrypts to
LegacyFile(enc, name, blobKey, tagOk) ==
    [encryptedFilename |-> enc, blobKey |-> blobKey, tagOk |-> tagOk, file |-> File(enc, name)]

(***************************************************************************)
(* FolderMetadata                                                          *)
(***************************************************************************)
NullMetadata == [kind |-> "null"]   \* QSharedPointer<FolderMetadata>{}

RootEncryptedFolderInfo(path, encryptionKey, decryptionKey, checksums) ==
    [path |-> path, keyForEncryption |-> encryptionKey,
     keyForDecryption |-> decryptionKey, keyChecksums |-> checksums]

makeDefault == RootEncryptedFolderInfo("/", NoKey, NoKey, {})

keysSet(info) ==
    info.keyForEncryption # NoKey /\ info.keyForDecryption # NoKey /\ info.keyChecksums # {}

latestSupportedMetadataVersion(versionFromApi) ==
    IF versionFromApi >= 20 THEN Version2_0
    ELSE IF versionFromApi >= 12 THEN Version1_2
    ELSE IF versionFromApi >= 10 THEN Version1
    ELSE VersionUndefined

\* the version the document states; anything unknown leaves VersionUndefined
setupVersionFromExistingMetadata(doc) ==
    IF doc.kind = "empty" THEN VersionUndefined
    ELSE IF doc.version = "1.2" THEN Version1_2
    ELSE IF doc.version \in {"2.0", "2"} THEN Version2_0
    ELSE IF doc.version \in {"1.0", "1"} THEN Version1
    ELSE VersionUndefined

\* a certificate is named by its owner; "" is the null certificate, and
\* KeylessCert a certificate whose publicKey() is null
KeylessCert == "keyless"

publicKey(certificate) == IF certificate \in {"", KeylessCert} THEN "" ELSE certificate

decryptDataWithPrivateKey(w) == decryptStringAsymmetric(w)

encryptDataWithPublicKey(k, owner) == encryptStringAsymmetric(owner, k)

\* the members after the constructor's initializer list
NewFolderMetadata(metadata, info) ==
    [kind |-> "fm",
     _initialMetadata |-> metadata,
     _isRootEncryptedFolder |-> (info.path = "/"),
     _metadataKeyForEncryption |-> info.keyForEncryption,
     _metadataKeyForDecryption |-> info.keyForDecryption,
     _keyChecksums |-> info.keyChecksums,
     _folderUsers |-> {},
     _files |-> <<>>,
     _metadataKeys |-> {},
     _existingMetadataVersion |-> setupVersionFromExistingMetadata(metadata),
     _encryptedMetadataVersion |-> VersionUndefined,
     _keyChecksumsRemoved |-> {},   \* declared in the header; no code writes it
     _isMetadataValid |-> FALSE,
     decryptFailed |-> FALSE]       \* observation: a symmetric decryption failed

\* isValid() reads the keys, not _isMetadataValid
isValid(m) == m._metadataKeyForDecryption # NoKey \/ m._metadataKeys # {}

isVersion2AndUp(m) == m._existingMetadataVersion >= Version2_0

files(m) == m._files

UserIds(m) == {u.userId : u \in m._folderUsers}

\* verifyMetadataKey that accepts every key
verifyMetadataKeyAcceptingAll(m, metadataKey) == TRUE

verifyMetadataKey(m, metadataKey) ==
    IF m._existingMetadataVersion < Version2_0 THEN TRUE
    ELSE IF metadataKey = NoKey \/ KeySize(metadataKey) < metadataKeySize THEN FALSE
    ELSE calcSha256(metadataKey) \in m._keyChecksums \/ m._keyChecksums = {}

\* createNewMetadataKeyForEncryption that does not record the new checksum
createNewMetadataKeyWithoutChecksum(m, fresh) ==
    IF ~m._isRootEncryptedFolder THEN m
    ELSE [m EXCEPT !._metadataKeyForEncryption = fresh,
                   !._keyChecksums =
                       IF m._metadataKeyForEncryption # NoKey
                       THEN @ \ {calcSha256(m._metadataKeyForEncryption)} ELSE @]

createNewMetadataKeyForEncryption(m, fresh) ==
    IF ~m._isRootEncryptedFolder THEN m
    ELSE [m EXCEPT !._metadataKeyForEncryption = fresh,
                   !._keyChecksums =
                       (IF m._metadataKeyForEncryption # NoKey
                        THEN @ \ {calcSha256(m._metadataKeyForEncryption)} ELSE @)
                       \cup {calcSha256(fresh)}]

\* updateUsersEncryptedMetadataKey that leaves every user's wrapped key alone
updateUsersKeepingWrappedKeys(m) == m

updateUsersEncryptedMetadataKey(m) ==
    IF ~m._isRootEncryptedFolder \/ m._metadataKeyForEncryption = NoKey THEN m
    ELSE [m EXCEPT !._folderUsers =
            {IF u.certificatePem = "" \/ publicKey(u.certificatePem) = "" THEN u
             ELSE [u EXCEPT !.encryptedMetadataKey =
                       encryptDataWithPublicKey(m._metadataKeyForEncryption,
                                                publicKey(u.certificatePem))]
             : u \in @}]

\* addUser without the check for a top-level folder
addUserOnAnyFolder(m, userId, certificate, fresh) ==
    IF userId = "" \/ certificate = "" \/ publicKey(certificate) = ""
    THEN [ok |-> FALSE, m |-> m]
    ELSE LET newFolderUser == [FolderUser(userId,
                                   encryptDataWithPublicKey(fresh, publicKey(certificate)))
                               EXCEPT !.certificatePem = certificate]
         IN [ok |-> TRUE,
             m |-> [m EXCEPT !._metadataKeyForEncryption = fresh,
                             !._folderUsers = {u \in @ : u.userId # userId}
                                              \cup {newFolderUser}]]

\* addUser that appends the new entry and keeps the one the user had
addUserKeepingOldEntry(m, userId, certificate, fresh) ==
    IF ~m._isRootEncryptedFolder THEN [ok |-> FALSE, m |-> m]
    ELSE IF userId = "" \/ certificate = "" \/ publicKey(certificate) = ""
    THEN [ok |-> FALSE, m |-> m]
    ELSE LET m1 == createNewMetadataKeyForEncryption(m, fresh)
             newFolderUser == [FolderUser(userId,
                                   encryptDataWithPublicKey(m1._metadataKeyForEncryption,
                                                            publicKey(certificate)))
                               EXCEPT !.certificatePem = certificate]
         IN [ok |-> TRUE,
             m |-> updateUsersEncryptedMetadataKey(
                       [m1 EXCEPT !._folderUsers = @ \cup {newFolderUser}])]

\* addUser: [ok, m]; a certificate is named by its owner, "" is the null certificate
addUser(m, userId, certificate, fresh) ==
    IF ~m._isRootEncryptedFolder THEN [ok |-> FALSE, m |-> m]
    ELSE IF userId = "" \/ certificate = "" \/ publicKey(certificate) = ""
    THEN [ok |-> FALSE, m |-> m]
    ELSE LET m1 == createNewMetadataKeyForEncryption(m, fresh)
             newFolderUser == FolderUser(userId,
                                  encryptDataWithPublicKey(m1._metadataKeyForEncryption,
                                                           publicKey(certificate)))
             m2 == [m1 EXCEPT !._folderUsers =
                        {u \in @ : u.userId # userId} \cup
                        {[newFolderUser EXCEPT !.certificatePem = certificate]}]
         IN [ok |-> TRUE, m |-> updateUsersEncryptedMetadataKey(m2)]


\* removeUser: [ok, m]
removeUser(m, userId, fresh) ==
    IF ~m._isRootEncryptedFolder THEN [ok |-> FALSE, m |-> m]
    ELSE IF userId = "" THEN [ok |-> FALSE, m |-> m]
    ELSE LET m1 == createNewMetadataKeyForEncryption(m, fresh)
             m2 == [m1 EXCEPT !._folderUsers = {u \in @ : u.userId # userId}]
         IN [ok |-> TRUE, m |-> updateUsersEncryptedMetadataKey(m2)]

\* the loop of addEncryptedFile: the first record of that original name goes
RECURSIVE RemoveFirstNamed(_, _)
RemoveFirstNamed(fs, name) ==
    IF fs = <<>> THEN <<>>
    ELSE IF Head(fs).originalFilename = name THEN Tail(fs)
    ELSE <<Head(fs)>> \o RemoveFirstNamed(Tail(fs), name)

\* addEncryptedFile that appends without looking for the original filename
addEncryptedFileAppending(m, f) ==
    IF ~m._isMetadataValid THEN m ELSE [m EXCEPT !._files = Append(@, f)]

addEncryptedFile(m, f) ==
    IF ~m._isMetadataValid THEN m
    ELSE [m EXCEPT !._files = Append(RemoveFirstNamed(@, f.originalFilename), f)]

\* the legacy checksum: SHA-256 over mnemonic, sorted encrypted filenames, key
computeMetadataKeyChecksum(m, metadataKey) ==
    [names |-> {m._files[i].encryptedFilename : i \in 1..Len(m._files)}, key |-> metadataKey]

checkMetadataKeyChecksum(m, metadataKey, metadataKeyChecksum) ==
    computeMetadataKeyChecksum(m, metadataKey) = metadataKeyChecksum

setupEmptyMetadataLegacy(m, fresh) ==
    [m EXCEPT !._metadataKeyForEncryption = fresh,
              !._metadataKeyForDecryption = fresh,
              !._isMetadataValid = TRUE]

setupEmptyMetadata(m, fresh) ==
    IF capability < 20 THEN setupEmptyMetadataLegacy(m, fresh)
    ELSE LET m1 == IF m._isRootEncryptedFolder
                   THEN LET a == addUser(m, Me, Me, fresh).m
                        IN [a EXCEPT !._metadataKeyForDecryption = a._metadataKeyForEncryption]
                   ELSE m
         IN [m1 EXCEPT !._isMetadataValid = TRUE]

\* the files loop of the legacy setup: a blob that does not decrypt yields an
\* empty object, whose empty file name makes the loop skip the entry
RECURSIVE LegacyFiles(_, _)
LegacyFiles(lfiles, key) ==
    IF lfiles = <<>> THEN <<>>
    ELSE LET f == Head(lfiles)
             ok == SymmetricDecryptOk(key, [key |-> f.blobKey, tagOk |-> f.tagOk])
         IN (IF ok /\ f.file.originalFilename # "" THEN <<f.file>> ELSE <<>>)
            \o LegacyFiles(Tail(lfiles), key)

\* setupExistingLegacyMetadataForMigration never asking the account's flag
setupExistingLegacyMetadataStrict(m, doc) ==
    LET k12 == IF doc.metadataKey # NoWrap
               THEN fromBase64Twice(decryptDataWithPrivateKey(doc.metadataKey))
               ELSE NoKey
        k10 == IF k12 = NoKey
                  /\ m._existingMetadataVersion < latestSupportedMetadataVersion(capability)
                  /\ doc.metadataKeys # <<>>
               THEN fromBase64Twice(decryptDataWithPrivateKey(doc.metadataKeys[Len(doc.metadataKeys)]))
               ELSE k12
        m2 == [m EXCEPT !._metadataKeyForDecryption = k10,
                        !._metadataKeyForEncryption = IF @ = NoKey THEN k10 ELSE @,
                        !._files = LegacyFiles(doc.lfiles, k10)]
    IN  IF k10 = NoKey THEN [m EXCEPT !._metadataKeyForDecryption = k10]
        ELSE IF ~checkMetadataKeyChecksum(m2, doc.metadataKey, doc.checksum)
                /\ m2._existingMetadataVersion >= Version1_2
        THEN m2
        ELSE [m2 EXCEPT !._isMetadataValid = TRUE]

setupExistingLegacyMetadataForMigration(m, doc) ==
    LET k12 == IF doc.metadataKey # NoWrap
               THEN fromBase64Twice(decryptDataWithPrivateKey(doc.metadataKey))
               ELSE NoKey
        k10 == IF k12 = NoKey
                  /\ m._existingMetadataVersion < latestSupportedMetadataVersion(capability)
                  /\ doc.metadataKeys # <<>>
               THEN fromBase64Twice(decryptDataWithPrivateKey(doc.metadataKeys[Len(doc.metadataKeys)]))
               ELSE k12
        m1 == [m EXCEPT !._metadataKeyForDecryption = k10]
    IN  IF k10 = NoKey THEN m1
        ELSE LET m2 == [m1 EXCEPT
                          !._metadataKeyForEncryption = IF @ = NoKey THEN k10 ELSE @,
                          !._files = LegacyFiles(doc.lfiles, k10),
                          !.decryptFailed =
                              \E i \in 1..Len(doc.lfiles) :
                                  ~SymmetricDecryptOk(k10, [key |-> doc.lfiles[i].blobKey,
                                                            tagOk |-> doc.lfiles[i].tagOk])]
             IN IF ~checkMetadataKeyChecksum(m2, doc.metadataKey, doc.checksum)
                   /\ m2._existingMetadataVersion >= Version1_2
                   /\ ~skipChecksumValidation
                THEN m2
                ELSE [m2 EXCEPT !._isMetadataValid = TRUE]

\* files with a name, then the folders (kept in the clear inside the blob)
ParsedFiles(fs) == SelectSeq(fs, LAMBDA f : f.originalFilename # "")

setupExistingMetadata(m, doc) ==
    IF m._existingMetadataVersion < Version1 THEN m
    ELSE IF m._existingMetadataVersion < Version2_0
    THEN setupExistingLegacyMetadataForMigration(m, doc)
    ELSE
    LET isUsersArrayValid == (~m._isRootEncryptedFolder /\ doc.users = {})
                             \/ (m._isRootEncryptedFolder /\ doc.users # {})
    IN  IF ~isUsersArrayValid THEN m
        ELSE
        LET m1 == [m EXCEPT !._folderUsers = doc.users]
            m2 == IF Me \in UserIds(m1)
                  THEN LET cur == CHOOSE u \in m1._folderUsers : u.userId = Me
                           k == decryptDataWithPrivateKey(cur.encryptedMetadataKey)
                       IN [m1 EXCEPT !._metadataKeyForEncryption = k,
                                     !._metadataKeyForDecryption = k]
                  ELSE m1
        IN  IF m2._metadataKeyForDecryption = NoKey \/ m2._metadataKeyForEncryption = NoKey
            THEN m2
            ELSE IF ~SymmetricDecryptOk(m2._metadataKeyForDecryption, doc.cipher)
            THEN [m2 EXCEPT !.decryptFailed = TRUE]
            ELSE
            LET m3 == IF doc.cipher.keyChecksums # {}
                      THEN [m2 EXCEPT !._keyChecksums = doc.cipher.keyChecksums]
                      ELSE m2
            IN  IF ~verifyMetadataKey(m3, m3._metadataKeyForDecryption) THEN m3
                ELSE [m3 EXCEPT !._files = ParsedFiles(doc.cipher.files),
                                !._isMetadataValid = TRUE]

removeEncryptedFile(m, f) == [m EXCEPT !._files = RemoveFirstNamed(@, f.originalFilename)]

removeAllEncryptedFiles(m) == [m EXCEPT !._files = <<>>]

\* QString::number(clientSideEncryptionVersion(), 'g', 2)
VersionString(versionFromApi) ==
    IF versionFromApi = 20 THEN "2"
    ELSE IF versionFromApi = 12 THEN "1.2"
    ELSE IF versionFromApi = 10 THEN "1"
    ELSE "0"

\* QJsonObject::insert keeps one value per key (the key order is not modelled)
JsonInsert(obj, f) ==
    IF \E i \in 1..Len(obj) : obj[i].encryptedFilename = f.encryptedFilename
    THEN [i \in 1..Len(obj) |->
             IF obj[i].encryptedFilename = f.encryptedFilename THEN f ELSE obj[i]]
    ELSE Append(obj, f)

RECURSIVE JsonObject(_, _)
JsonObject(entries, obj) ==
    IF entries = <<>> THEN obj
    ELSE JsonObject(Tail(entries), JsonInsert(obj, Head(entries)))

isDirectory(f) == f.mimetype \in {"", "inode/directory", "httpd/unix-directory"}

\* an entry of the "folders" object: the two names and nothing else
FolderEntry(f) ==
    [encryptedFilename |-> f.encryptedFilename, originalFilename |-> f.originalFilename,
     encryptionKey |-> 0, initializationVector |-> 0, authenticationTag |-> 0,
     mimetype |-> ""]

\* encryptedMetadataLegacy: [doc, m]; every file is encrypted on its own with
\* the metadata key, the key is wrapped for the account's own public key
encryptedMetadataLegacy(m) ==
    IF m._metadataKeyForEncryption = NoKey THEN [doc |-> EmptyDoc, m |-> m]
    ELSE LET encryptedMetadataKey ==
                 encryptDataWithPublicKey(toBase64Twice(m._metadataKeyForEncryption), Me)
             entries == [i \in 1..Len(m._files) |->
                            [encryptedFilename |-> m._files[i].encryptedFilename,
                             blobKey |-> m._metadataKeyForEncryption, tagOk |-> TRUE,
                             file |-> m._files[i]]]
         IN [doc |-> DocLegacy(VersionString(capability), encryptedMetadataKey, <<>>,
                               JsonObject(entries, <<>>),
                               computeMetadataKeyChecksum(m, encryptedMetadataKey)),
             m |-> [m EXCEPT !._encryptedMetadataVersion =
                                 latestSupportedMetadataVersion(capability)]]

\* encryptedMetadata that writes a V2.0 document whatever the users array holds
encryptedMetadataWithoutUsersCheck(m, fresh) ==
    IF ~m._isMetadataValid THEN [doc |-> EmptyDoc, m |-> m]
    ELSE IF latestSupportedMetadataVersion(capability) < Version2_0
    THEN encryptedMetadataLegacy(m)
    ELSE
    LET m1 == IF m._isRootEncryptedFolder /\ m._folderUsers = {}
                 /\ m._existingMetadataVersion < Version2_0
              THEN createNewMetadataKeyForEncryption(m, fresh)
              ELSE m
        keyChecksums == IF m1._isRootEncryptedFolder THEN m1._keyChecksums ELSE {}
    IN  IF m1._metadataKeyForEncryption = NoKey THEN [doc |-> EmptyDoc, m |-> m1]
        ELSE [doc |-> [DocV2(m1._folderUsers,
                             [key |-> m1._metadataKeyForEncryption, tagOk |-> TRUE,
                              files |-> m1._files, keyChecksums |-> keyChecksums])
                          EXCEPT !.version = VersionString(capability)],
              m |-> m1]

\* encryptedMetadata: [doc, m]; doc is EmptyDoc where the code returns {}
encryptedMetadata(m, fresh) ==
    IF ~m._isMetadataValid THEN [doc |-> EmptyDoc, m |-> m]
    ELSE IF latestSupportedMetadataVersion(capability) < Version2_0
    THEN encryptedMetadataLegacy(m)
    ELSE
    LET m1 == IF m._isRootEncryptedFolder /\ m._folderUsers = {}
                 /\ m._existingMetadataVersion < Version2_0
              THEN createNewMetadataKeyForEncryption(m, fresh)
              ELSE m
        fileEntries == SelectSeq(m1._files, LAMBDA f : ~isDirectory(f))
        folderEntries == SelectSeq(m1._files, isDirectory)
        keyChecksums == IF m1._isRootEncryptedFolder THEN m1._keyChecksums ELSE {}
        isChecksumsArrayValid == (~m1._isRootEncryptedFolder /\ keyChecksums = {})
                                 \/ (m1._isRootEncryptedFolder /\ keyChecksums # {})
        folderUsers == IF m1._isRootEncryptedFolder THEN m1._folderUsers ELSE {}
        isFolderUsersArrayValid == (~m1._isRootEncryptedFolder /\ folderUsers = {})
                                   \/ (m1._isRootEncryptedFolder /\ folderUsers # {})
    IN  IF m1._metadataKeyForEncryption = NoKey THEN [doc |-> EmptyDoc, m |-> m1]
        ELSE IF ~isChecksumsArrayValid THEN [doc |-> EmptyDoc, m |-> m1]
        ELSE IF ~isFolderUsersArrayValid THEN [doc |-> EmptyDoc, m |-> m1]
        ELSE [doc |-> [DocV2(folderUsers,
                             [key |-> m1._metadataKeyForEncryption, tagOk |-> TRUE,
                              files |-> JsonObject(fileEntries, <<>>)
                                        \o JsonObject([i \in 1..Len(folderEntries) |->
                                                          FolderEntry(folderEntries[i])], <<>>),
                              keyChecksums |-> keyChecksums])
                          EXCEPT !.version = VersionString(capability)],
              m |-> [m1 EXCEPT !._encryptedMetadataVersion =
                                  latestSupportedMetadataVersion(capability)]]

\* setupMetadata(): every branch ends in one emitSetupComplete()
setupMetadata(m, fresh) ==
    IF m._initialMetadata.kind = "empty" THEN setupEmptyMetadata(m, fresh)
    ELSE setupExistingMetadata(m, m._initialMetadata)

(***************************************************************************)
(* Requests in flight, signals, and the state the handlers work on         *)
(***************************************************************************)
NoToken == 0                        \* QByteArray{} used as a folder token

\* the token of the lock an owner holds on the top-level folder
ParentToken == 7

\* HTTP status codes the server answers with, per request; 0 is a reply
\* without an HTTP status (the connection failed)
LsColErrorCodes == {0, 404}
GetMetadataErrorCodes == {0, 404, 500}
LockErrorCodes == {423}
UploadErrorCodes == {400}
UnlockErrorCodes == {403}

Request(kind, token, payloadEmpty) == [kind |-> kind, token |-> token, payloadEmpty |-> payloadEmpty]

Send(n, r) == n (+) SetToBag({r})

Receive(n, r) == n (-) SetToBag({r})

InFlight(kinds) == {r \in BagToSet(net) : r.kind \in kinds}

Range(f) == {f[i] : i \in DOMAIN f}

\* the state one handler reads and writes, as one record
Cur ==
    [_folderId |-> _folderId, _folderToken |-> _folderToken,
     _folderMetadata |-> _folderMetadata,
     _rootEncryptedFolderInfo |-> _rootEncryptedFolderInfo,
     _uploadErrorCode |-> _uploadErrorCode, _allowEmptyMetadata |-> _allowEmptyMetadata,
     _isFolderLocked |-> _isFolderLocked, _isUnlockRunning |-> _isUnlockRunning,
     _isNewMetadataCreated |-> _isNewMetadataCreated,
     _keepLockedAfterUpdate |-> _keepLockedAfterUpdate,
     folderUnlockedSlots |-> folderUnlockedSlots,
     fm |-> fm, fmPhase |-> fmPhase, rootFm |-> rootFm, keyCtr |-> keyCtr,
     net |-> net, sig |-> sig, up |-> up, lastFetch |-> lastFetch]

Apply(s) ==
    /\ _folderId' = s._folderId
    /\ _folderToken' = s._folderToken
    /\ _folderMetadata' = s._folderMetadata
    /\ _rootEncryptedFolderInfo' = s._rootEncryptedFolderInfo
    /\ _uploadErrorCode' = s._uploadErrorCode
    /\ _allowEmptyMetadata' = s._allowEmptyMetadata
    /\ _isFolderLocked' = s._isFolderLocked
    /\ _isUnlockRunning' = s._isUnlockRunning
    /\ _isNewMetadataCreated' = s._isNewMetadataCreated
    /\ _keepLockedAfterUpdate' = s._keepLockedAfterUpdate
    /\ folderUnlockedSlots' = s.folderUnlockedSlots
    /\ fm' = s.fm
    /\ fmPhase' = s.fmPhase
    /\ rootFm' = s.rootFm
    /\ keyCtr' = s.keyCtr
    /\ net' = s.net
    /\ sig' = s.sig
    /\ up' = s.up
    /\ lastFetch' = s.lastFetch

NoUpload == [keep |-> FALSE, lockAcquired |-> FALSE, outcome |-> 0,
             unlockReqs |-> 0, unlockDone |-> FALSE, finished |-> 0, code |-> 0,
             lockFailed |-> FALSE, unlockFailed |-> FALSE]

NoFetch == [allowEmpty |-> FALSE, nested |-> FALSE, idFailed |-> FALSE, getSent |-> FALSE,
            rootValidV2 |-> FALSE, replied |-> FALSE, http |-> 0, done |-> FALSE, code |-> 0,
            before |-> NullMetadata]

emitFetchFinished(s, code) ==
    [s EXCEPT !.sig.fetchFinished = @ + 1, !.sig.fetchCode = code]

\* fetchFinished emitted by the fetch chain: the fetchMetadata() call ends
FetchEnds(s, code) ==
    [emitFetchFinished(s, code) EXCEPT !.lastFetch.done = TRUE, !.lastFetch.code = code]

emitUploadFinished(s, code) ==
    [s EXCEPT !.sig.uploadFinished = @ + 1, !.sig.uploadCode = code,
              !.up.finished = @ + 1, !.up.code = code]

(***************************************************************************)
(* FolderMetadata: construction and the lookup of the top-level folder     *)
(***************************************************************************)
\* what the FolderMetadata under construction has done so far: the listings
\* and metadata requests it sent for its top-level folder, its calls of
\* emitSetupComplete() and the setupComplete signals its timers emitted
NoSetup == [listings |-> 0, fetches |-> 0, scheduled |-> 0, emitted |-> 0]

\* FolderMetadata::emitSetupComplete: a singleShot(0) timer
emitSetupComplete(s) == [s EXCEPT !.fmPhase = "timer", !.sig.setup.scheduled = @ + 1]

\* FolderMetadata::FolderMetadata(account, metadata, rootEncryptedFolderInfo)
ConstructFolderMetadata(s, metadata, info) ==
    LET m == NewFolderMetadata(metadata, info)
    IN  IF ~m._isRootEncryptedFolder /\ ~keysSet(info) /\ info.path # ""
        THEN [s EXCEPT !.fm = m, !.fmPhase = "rootId", !.rootFm = NullMetadata,
                       !.sig.setup = [NoSetup EXCEPT !.listings = 1],
                       !.net = Send(@, Request("rootLsCol", NoToken, FALSE))]
        ELSE emitSetupComplete([s EXCEPT !.fm = setupMetadata(m, s.keyCtr),
                                         !.sig.setup = NoSetup,
                                         !.rootFm = NullMetadata, !.keyCtr = @ + 1])

\* rootE2eeFolderMetadataReceived with an empty document, from any error path
RootLookupFailed(s) ==
    emitSetupComplete([s EXCEPT !.fm = setupMetadata(@, s.keyCtr), !.keyCtr = @ + 1])

\* rootE2eeFolderEncryptedIdReceived going on to the metadata request after
\* it set the Model up for a listing without folder infos
rootE2eeFolderEncryptedIdReceivedGoingOn(s, outcome) ==
    LET s1 == [s EXCEPT !.net = Receive(@, Request("rootLsCol", NoToken, FALSE))]
        s2 == IF outcome = "id" THEN s1 ELSE RootLookupFailed(s1)
    IN  [s2 EXCEPT !.fmPhase = "rootMeta", !.sig.setup.fetches = @ + 1,
                   !.net = Send(@, Request("rootGetMetadata", NoToken, FALSE))]

\* rootE2eeFolderEncryptedIdReceived / rootE2eeFolderEncryptedIdError
rootE2eeFolderEncryptedIdReceived(s, outcome) ==
    LET s1 == [s EXCEPT !.net = Receive(@, Request("rootLsCol", NoToken, FALSE))]
    IN  IF outcome = "id"
        THEN [s1 EXCEPT !.fmPhase = "rootMeta", !.sig.setup.fetches = @ + 1,
                        !.net = Send(@, Request("rootGetMetadata", NoToken, FALSE))]
        ELSE RootLookupFailed(s1)

\* rootE2eeFolderMetadataReceived / rotE2eeFolderEncryptedMetadataError
rootE2eeFolderMetadataReceived(s, json) ==
    LET s1 == [s EXCEPT !.net = Receive(@, Request("rootGetMetadata", NoToken, FALSE))]
    IN  IF json.kind = "empty" THEN RootLookupFailed(s1)
        ELSE [s1 EXCEPT !.rootFm = setupMetadata(NewFolderMetadata(json, makeDefault), s.keyCtr),
                        !.keyCtr = @ + 1, !.fmPhase = "rootSetup"]

\* the lambda connected to the top-level metadata's setupComplete
RootSetupCompleteLambda(m, root) ==
    IF ~isValid(root) \/ ~isVersion2AndUp(root) THEN m
    ELSE LET m1 == [m EXCEPT !._metadataKeyForEncryption = root._metadataKeyForEncryption]
         IN  IF ~isVersion2AndUp(m1) THEN m1
             ELSE [m1 EXCEPT !._metadataKeyForDecryption = root._metadataKeyForDecryption,
                             !._keyChecksums = root._keyChecksums]

rootSetupComplete(s) ==
    emitSetupComplete(
        [s EXCEPT !.fm = setupMetadata(RootSetupCompleteLambda(s.fm, s.rootFm), s.keyCtr),
                  !.keyCtr = @ + 1,
                  !.lastFetch.rootValidV2 = isValid(s.rootFm) /\ isVersion2AndUp(s.rootFm)])

(***************************************************************************)
(* FetchAndUploadE2eeFolderMetadataJob: the handlers                       *)
(***************************************************************************)
folderMetadata(s) == s._folderMetadata

HasValidMetadata(s) == folderMetadata(s).kind = "fm" /\ isValid(folderMetadata(s))

Disconnect(s, slot) ==
    [s EXCEPT !.folderUnlockedSlots = SelectSeq(@, LAMBDA c : c # slot)]

Connect(s, slot) == [s EXCEPT !.folderUnlockedSlots = Append(@, slot)]

slotEmitUploadSuccess(s) ==
    emitUploadFinished(Disconnect(s, "slotEmitUploadSuccess"), s._uploadErrorCode)

slotEmitUploadError(s) ==
    emitUploadFinished(Disconnect(s, "slotEmitUploadError"), s._uploadErrorCode)

\* signal activation: the connections present when the signal is emitted are
\* called in connection order; one disconnected by an earlier slot is skipped
RECURSIVE ActivateFolderUnlocked(_, _)
ActivateFolderUnlocked(s, snapshot) ==
    IF snapshot = <<>> THEN s
    ELSE LET c == Head(snapshot)
         IN  IF c \notin Range(s.folderUnlockedSlots)
             THEN ActivateFolderUnlocked(s, Tail(snapshot))
             ELSE ActivateFolderUnlocked(
                      IF c = "slotEmitUploadSuccess" THEN slotEmitUploadSuccess(s)
                      ELSE slotEmitUploadError(s),
                      Tail(snapshot))

emitFolderUnlocked(s, httpStatus) ==
    ActivateFolderUnlocked(
        [s EXCEPT !.sig.folderUnlocked = @ + 1, !.sig.unlockStatus = httpStatus],
        s.folderUnlockedSlots)

\* unlockFolder without the check for a folder that is not locked
unlockFolderAlwaysLocked(s, success) ==
    IF s._isUnlockRunning THEN s
    ELSE LET s1 == IF ~s._keepLockedAfterUpdate
                   THEN Connect(s, IF success THEN "slotEmitUploadSuccess"
                                   ELSE "slotEmitUploadError")
                   ELSE s
         IN  IF s1._folderToken = NoToken THEN emitFolderUnlocked(s1, 200)
             ELSE [s1 EXCEPT !._isUnlockRunning = TRUE,
                             !.up.unlockReqs = @ + 1,
                             !.net = Send(@, Request("unlock", s1._folderToken, FALSE))]

unlockFolder(s, success) ==
    IF s._isUnlockRunning THEN s
    ELSE IF ~s._isFolderLocked THEN emitFolderUnlocked(s, 204)
    ELSE LET s1 == IF ~s._keepLockedAfterUpdate
                   THEN Connect(s, IF success THEN "slotEmitUploadSuccess"
                                   ELSE "slotEmitUploadError")
                   ELSE s
         IN  IF s1._folderToken = NoToken THEN emitFolderUnlocked(s1, 200)
             ELSE [s1 EXCEPT !._isUnlockRunning = TRUE,
                             !.up.unlockReqs = @ + 1,
                             !.net = Send(@, Request("unlock", s1._folderToken, FALSE))]

\* the success lambda of the unlock request
UnlockSuccessLambda(s) ==
    [emitFolderUnlocked([s EXCEPT !._isFolderLocked = FALSE], 200)
        EXCEPT !._isUnlockRunning = FALSE]

\* an error lambda that lets the unlock status replace the upload's code
UnlockErrorLambdaOverwritingCode(s, httpStatus) ==
    [emitFolderUnlocked([s EXCEPT !._uploadErrorCode = httpStatus], httpStatus)
        EXCEPT !._isUnlockRunning = FALSE]

\* the error lambda of the unlock request
UnlockErrorLambda(s, httpStatus) ==
    [emitFolderUnlocked(s, httpStatus) EXCEPT !._isUnlockRunning = FALSE]

\* slotUploadMetadataSuccess that unlocks whatever the keep-lock mode says
slotUploadMetadataSuccessAlwaysUnlock(s) ==
    IF ~s._isFolderLocked THEN slotEmitUploadSuccess(s)
    ELSE unlockFolder(Connect(s, "slotEmitUploadSuccess"), TRUE)

slotUploadMetadataSuccess(s) ==
    IF s._keepLockedAfterUpdate \/ ~s._isFolderLocked THEN slotEmitUploadSuccess(s)
    ELSE unlockFolder(Connect(s, "slotEmitUploadSuccess"), TRUE)

\* slotUploadMetadataError reporting at once, the folder left locked
slotUploadMetadataErrorWithoutUnlock(s, httpReturnCode) ==
    LET s1 == [s EXCEPT !._uploadErrorCode = httpReturnCode, !.up.outcome = httpReturnCode]
    IN  emitUploadFinished(s1, s1._uploadErrorCode)

slotUploadMetadataError(s, httpReturnCode) ==
    LET s1 == [s EXCEPT !._uploadErrorCode = httpReturnCode, !.up.outcome = httpReturnCode]
    IN  IF s1._isFolderLocked /\ ~s1._keepLockedAfterUpdate
        THEN unlockFolder(Connect(s1, "slotEmitUploadError"), FALSE)
        ELSE emitUploadFinished(s1, s1._uploadErrorCode)

\* startUploadMetadata; encryptedMetadata() changes the Model in place, so the
\* Model seen before the last fetch changes with it where it is the same object
startUploadMetadata(s) ==
    LET s1 == [s EXCEPT !._uploadErrorCode = 200]
        r == encryptedMetadata(s1._folderMetadata, s1.keyCtr)
        generated == r.m._metadataKeyForEncryption
                     # s1._folderMetadata._metadataKeyForEncryption
    IN  IF ~HasValidMetadata(s1) THEN slotUploadMetadataError(s1, -1)
        ELSE [s1 EXCEPT !._folderMetadata = r.m,
                        !.lastFetch.before = IF @ = s1._folderMetadata THEN r.m ELSE @,
                        !.keyCtr = IF generated THEN @ + 1 ELSE @,
                        !.net = Send(@, Request(IF s1._isNewMetadataCreated THEN "store"
                                                 ELSE "update",
                                                 s1._folderToken, r.doc = EmptyDoc))]

\* validateBeforeLock: [ok, s]
validateBeforeLock(s) ==
    IF s._isFolderLocked THEN [ok |-> FALSE, s |-> emitUploadFinished(s, -1)]
    ELSE IF ~HasValidMetadata(s) THEN [ok |-> FALSE, s |-> emitUploadFinished(s, -1)]
    ELSE [ok |-> TRUE, s |-> s]

lockFolder(s) ==
    LET v == validateBeforeLock(s)
    IN  IF ~v.ok THEN v.s
        ELSE [v.s EXCEPT !.net = Send(@, Request("lock", NoToken, FALSE))]

uploadMetadata(s, keepLock) ==
    LET s1 == [s EXCEPT !._keepLockedAfterUpdate = keepLock]
    IN  IF s1._folderToken # NoToken THEN startUploadMetadata(s1) ELSE lockFolder(s1)

setFolderToken(s, token) == [s EXCEPT !._folderToken = token]

slotFolderLockedSuccessfully(s, token) ==
    startUploadMetadata([s EXCEPT !._folderToken = token, !._isFolderLocked = TRUE,
                                  !.up.lockAcquired = TRUE])

\* slotFolderLockedError that asks for the lock again
slotFolderLockedErrorRetrying(s, httpErrorCode) == lockFolder(s)

slotFolderLockedError(s, httpErrorCode) == emitFetchFinished(s, httpErrorCode)

fetchFolderEncryptedId(s) == [s EXCEPT !.net = Send(@, Request("lsCol", NoToken, FALSE))]

fetchMetadata(s, allowEmptyMetadata) ==
    fetchFolderEncryptedId([s EXCEPT !._allowEmptyMetadata = allowEmptyMetadata])

fetchMetadataWithInfo(s, rootEncryptedFolderInfo, allowEmptyMetadata) ==
    LET s1 == [s EXCEPT !._rootEncryptedFolderInfo = rootEncryptedFolderInfo]
    IN  IF s1._rootEncryptedFolderInfo.path = "" THEN FetchEnds(s1, -1)
        ELSE fetchMetadata(s1, allowEmptyMetadata)

startFetchMetadata(s) ==
    [s EXCEPT !.net = Send(@, Request("getMetadata", NoToken, FALSE)),
              !.lastFetch.getSent = TRUE]

slotFolderEncryptedIdReceived(s) == startFetchMetadata([s EXCEPT !._folderId = "id"])

slotFolderEncryptedIdError(s, errorCode) ==
    FetchEnds([s EXCEPT !.lastFetch.idFailed = TRUE], errorCode)

slotMetadataReceived(s, json, statusCode) ==
    LET s1 == [s EXCEPT !._allowEmptyMetadata = FALSE]
    IN  IF statusCode # 200 /\ statusCode # 404 THEN FetchEnds(s1, statusCode)
        ELSE ConstructFolderMetadata(s1, IF statusCode = 404 THEN EmptyDoc ELSE json,
                                     s1._rootEncryptedFolderInfo)

\* slotMetadataReceivedError taking every error for an empty folder
slotMetadataReceivedErrorAlwaysEmpty(s, httpReturnCode) ==
    slotMetadataReceived([s EXCEPT !._isNewMetadataCreated = TRUE], EmptyDoc, 404)

slotMetadataReceivedError(s, httpReturnCode) ==
    IF s._allowEmptyMetadata
    THEN slotMetadataReceived([s EXCEPT !._isNewMetadataCreated = TRUE], EmptyDoc, httpReturnCode)
    ELSE FetchEnds(s, httpReturnCode)

\* the lambda slotMetadataReceived connects to the new metadata's setupComplete
SetupCompleteLambda(s) ==
    IF ~isValid(s.fm) THEN FetchEnds(s, -1)
    ELSE FetchEnds([s EXCEPT !._folderMetadata = s.fm], 200)

\* the lambda held the last reference to a metadata the job did not keep
ReleaseSetup(s) ==
    [s EXCEPT !.fm = NullMetadata, !.rootFm = NullMetadata, !.fmPhase = "none",
              !.sig.setup = NoSetup]

(***************************************************************************)
(* Inputs: the documents the server may hold, the folders a job is for     *)
(***************************************************************************)
WrapFor(u, k) == encryptStringAsymmetric(u, k)

CipherOf(k, tagOk, fs, checksums) ==
    [key |-> k, tagOk |-> tagOk, files |-> fs, keyChecksums |-> checksums]

\* a top-level V2.0 folder shared with the current user, one file
GoodV2Root ==
    DocV2({FolderUser(Me, WrapFor(Me, 1))},
          CipherOf(1, TRUE, <<File("e1", "a.txt")>>, {calcSha256(1)}))

\* the same with a ciphertext whose authentication tag does not match
BadTagV2Root ==
    DocV2({FolderUser(Me, WrapFor(Me, 1))},
          CipherOf(1, FALSE, <<File("e1", "a.txt")>>, {calcSha256(1)}))

\* a top-level V2.0 folder the current user has no access to
ForeignV2Root ==
    DocV2({FolderUser(Other, WrapFor(Other, 1))},
          CipherOf(1, TRUE, <<File("e1", "a.txt")>>, {calcSha256(1)}))

\* a nested V2.0 folder under GoodV2Root: no users, no checksums of its own
NestedV2 ==
    DocV2({}, CipherOf(1, TRUE, <<File("e2", "b.txt")>>, {}))

LegacyChecksum(names, wrapped) == [names |-> names, key |-> wrapped]

\* a V1.2 folder with one file and a matching checksum
Legacy12 ==
    DocLegacy("1.2", WrapFor(Me, toBase64Twice(2)), <<>>,
              <<LegacyFile("e1", "a.txt", 2, TRUE)>>,
              LegacyChecksum({"e1"}, WrapFor(Me, toBase64Twice(2))))

\* documents a metadata request of the job may return
JobDocs == {GoodV2Root, BadTagV2Root, NestedV2, Legacy12}

\* documents the top-level folder of a nested folder may hold
RootDocs == {GoodV2Root, ForeignV2Root, EmptyDoc}

\* createRootPath's result for a top-level folder and for a nested one
RootPaths == {"/", "/top"}

\* what a caller may pass to fetchMetadata(rootEncryptedFolderInfo, ...)
CallerInfos ==
    {RootEncryptedFolderInfo("", NoKey, NoKey, {}),
     RootEncryptedFolderInfo("/top", 1, 1, {calcSha256(1)})}

JobCapabilities == {20}

(***************************************************************************)
(* Initial state: the job after its constructor                            *)
(***************************************************************************)
\* no EncryptFolderJob
NoEncryptFolderJob == [phase |-> "none"]

\* no UpdateE2eeFolderUsersMetadataJob was constructed
\* no UpdateMigratedE2eeMetadataJob owns the membership job
NoMigratedJob == [_state |-> "None", connected |-> FALSE, finished |-> <<>>]

\* the users membership jobs add, and a keychain or server without certificates
Carol == "carol"
FolderUserIds == {Other, Carol}
NoCertificates == [x \in FolderUserIds |-> ""]

NoUsersJob == [job |-> <<>>, net |-> {}, log |-> <<>>, log2 |-> <<>>,
               keychain |-> NoCertificates, server |-> NoCertificates,
               e2e |-> {}, slots |-> <<>>,
               journal |-> <<>>, order |-> <<>>, updated |-> {},
               migrated |-> NoMigratedJob]

NoOp == [n |-> 0, info |-> makeDefault, name |-> "", userId |-> "", certificate |-> "",
         file |-> File("", ""), ret |-> FALSE, before |-> NullMetadata, doc |-> EmptyDoc]

InitCommon ==
    /\ keyCtr = 50
    /\ fm = NullMetadata
    /\ fmPhase = "none"
    /\ rootFm = NullMetadata
    /\ _folderId = ""
    /\ _folderToken = NoToken
    /\ _folderMetadata = NullMetadata
    /\ _uploadErrorCode = 200
    /\ _allowEmptyMetadata = FALSE
    /\ _isFolderLocked = FALSE
    /\ _isUnlockRunning = FALSE
    /\ _isNewMetadataCreated = FALSE
    /\ _keepLockedAfterUpdate = FALSE
    /\ folderUnlockedSlots = <<>>
    /\ net = EmptyBag
    /\ srvLock = NoToken
    /\ tokenCtr = 1
    /\ calls = [fetch |-> 0, upload |-> 0, unlock |-> 0]
    /\ sig = [fetchFinished |-> 0, fetchCode |-> 0, uploadFinished |-> 0, uploadCode |-> 0,
              folderUnlocked |-> 0, unlockStatus |-> 0, setup |-> NoSetup]
    /\ up = NoUpload
    /\ lastFetch = NoFetch
    /\ op = NoOp
    /\ reparsed = NullMetadata

Init ==
    /\ InitCommon
    /\ uj = NoUsersJob
    /\ ej = NoEncryptFolderJob
    /\ skipChecksumValidation = FALSE
    /\ capability \in JobCapabilities
    /\ \E path \in RootPaths :
          _rootEncryptedFolderInfo = RootEncryptedFolderInfo(path, NoKey, NoKey, {})

\* no request in flight and no setup pending: the job waits for its owner
Quiescent == net = EmptyBag /\ fmPhase \in {"none", "done"}

Frame == UNCHANGED <<capability, skipChecksumValidation, op, reparsed, uj, ej>>

(***************************************************************************)
(* Calls by the owner of the job                                           *)
(***************************************************************************)
TotalCalls == calls.fetch + calls.upload + calls.unlock

StartFetch(allow) ==
    [Cur EXCEPT !.lastFetch = [NoFetch EXCEPT !.allowEmpty = allow,
                                              !.before = _folderMetadata]]

FetchMetadataCall ==
    /\ TotalCalls < MaxCalls
    /\ Quiescent
    /\ \E allow \in BOOLEAN :
          Apply(fetchMetadata([StartFetch(allow) EXCEPT
                    !.lastFetch.nested = (_rootEncryptedFolderInfo.path # "/")], allow))
    /\ calls' = [calls EXCEPT !.fetch = @ + 1]
    /\ UNCHANGED <<srvLock, tokenCtr>>
    /\ Frame

FetchMetadataWithInfoCall ==
    /\ TotalCalls < MaxCalls
    /\ Quiescent
    /\ \E allow \in BOOLEAN, info \in CallerInfos :
          Apply(fetchMetadataWithInfo([StartFetch(allow) EXCEPT
                    !.lastFetch.nested = (info.path # "/")], info, allow))
    /\ calls' = [calls EXCEPT !.fetch = @ + 1]
    /\ UNCHANGED <<srvLock, tokenCtr>>
    /\ Frame

\* the owner hands the job the token of a lock it holds already, right after
\* constructing the job
SetFolderTokenCall ==
    /\ TotalCalls = 0 /\ Quiescent
    /\ _folderToken = NoToken /\ srvLock = NoToken
    /\ Apply(setFolderToken(Cur, ParentToken))
    /\ srvLock' = ParentToken
    /\ UNCHANGED <<calls, tokenCtr>>
    /\ Frame

UploadMetadataBody ==
    /\ TotalCalls < MaxCalls
    /\ \E keepLock \in BOOLEAN :
          Apply(uploadMetadata([Cur EXCEPT !.up = [NoUpload EXCEPT !.keep = keepLock]], keepLock))
    /\ calls' = [calls EXCEPT !.upload = @ + 1]
    /\ UNCHANGED <<srvLock, tokenCtr>>
    /\ Frame

UploadMetadataCall == Quiescent /\ UploadMetadataBody

UnlockFolderCall ==
    /\ TotalCalls < MaxCalls
    /\ Quiescent
    /\ \E success \in BOOLEAN : Apply(unlockFolder([Cur EXCEPT !.up = NoUpload], success))
    /\ calls' = [calls EXCEPT !.unlock = @ + 1]
    /\ UNCHANGED <<srvLock, tokenCtr>>
    /\ Frame

(***************************************************************************)
(* Replies of the server and timers of the event loop                      *)
(***************************************************************************)
Took(r) == [Cur EXCEPT !.net = Receive(@, r)]

LsColSuccess ==
    /\ \E r \in InFlight({"lsCol"}) : Apply(slotFolderEncryptedIdReceived(Took(r)))
    /\ UNCHANGED <<calls, srvLock, tokenCtr>>
    /\ Frame

LsColError ==
    /\ \E r \in InFlight({"lsCol"}), code \in LsColErrorCodes :
          Apply(slotFolderEncryptedIdError(Took(r), code))
    /\ UNCHANGED <<calls, srvLock, tokenCtr>>
    /\ Frame

\* GetMetadataApiJob emits jsonReceived(json, 200) for a 200 reply
GetMetadataSuccess ==
    /\ \E r \in InFlight({"getMetadata"}), json \in JobDocs :
          Apply(slotMetadataReceived([Took(r) EXCEPT !.lastFetch.replied = TRUE,
                                                     !.lastFetch.http = 200], json, 200))
    /\ UNCHANGED <<calls, srvLock, tokenCtr>>
    /\ Frame

\* GetMetadataApiJob emits error(fileId, code) for every other reply
GetMetadataError ==
    /\ \E r \in InFlight({"getMetadata"}), code \in GetMetadataErrorCodes :
          Apply(slotMetadataReceivedError([Took(r) EXCEPT !.lastFetch.replied = TRUE,
                                                          !.lastFetch.http = code], code))
    /\ UNCHANGED <<calls, srvLock, tokenCtr>>
    /\ Frame

RootLsColReply ==
    /\ fmPhase = "rootId"
    /\ InFlight({"rootLsCol"}) # {}
    /\ \E outcome \in {"id", "noFolderInfos", "error"} :
          Apply(rootE2eeFolderEncryptedIdReceived(Cur, outcome))
    /\ UNCHANGED <<calls, srvLock, tokenCtr>>
    /\ Frame

RootGetMetadataReply ==
    /\ fmPhase = "rootMeta"
    /\ InFlight({"rootGetMetadata"}) # {}
    /\ \E json \in RootDocs : Apply(rootE2eeFolderMetadataReceived(Cur, json))
    /\ UNCHANGED <<calls, srvLock, tokenCtr>>
    /\ Frame

RootSetupComplete ==
    /\ fmPhase = "rootSetup"
    /\ Apply(rootSetupComplete(Cur))
    /\ UNCHANGED <<calls, srvLock, tokenCtr>>
    /\ Frame

\* the singleShot(0) timer of emitSetupComplete fires; the job's lambda runs
SetupComplete ==
    /\ fmPhase = "timer"
    /\ Apply(ReleaseSetup(SetupCompleteLambda(Cur)))
    /\ UNCHANGED <<calls, srvLock, tokenCtr>>
    /\ Frame

\* the server grants the lock only while nobody holds it
LockSuccess ==
    /\ srvLock = NoToken
    /\ \E r \in InFlight({"lock"}) : Apply(slotFolderLockedSuccessfully(Took(r), tokenCtr))
    /\ srvLock' = tokenCtr
    /\ tokenCtr' = tokenCtr + 1
    /\ UNCHANGED calls
    /\ Frame

LockError ==
    /\ \E r \in InFlight({"lock"}), code \in LockErrorCodes :
          Apply(slotFolderLockedError([Took(r) EXCEPT !.up.lockFailed = TRUE], code))
    /\ UNCHANGED <<calls, srvLock, tokenCtr>>
    /\ Frame

\* the server accepts metadata only with the token of the lock
UploadSuccess ==
    /\ \E r \in InFlight({"store", "update"}) :
          /\ r.token # NoToken /\ r.token = srvLock
          /\ Apply(slotUploadMetadataSuccess([Took(r) EXCEPT !.up.outcome = 200]))
    /\ UNCHANGED <<calls, srvLock, tokenCtr>>
    /\ Frame

UploadError ==
    /\ \E r \in InFlight({"store", "update"}), code \in UploadErrorCodes :
          Apply(slotUploadMetadataError(Took(r), code))
    /\ UNCHANGED <<calls, srvLock, tokenCtr>>
    /\ Frame

UnlockSuccess ==
    /\ \E r \in InFlight({"unlock"}) :
          /\ Apply(UnlockSuccessLambda([Took(r) EXCEPT !.up.unlockDone = TRUE]))
          /\ srvLock' = IF r.token = srvLock THEN NoToken ELSE srvLock
    /\ UNCHANGED <<calls, tokenCtr>>
    /\ Frame

UnlockError ==
    /\ \E r \in InFlight({"unlock"}), code \in UnlockErrorCodes :
          Apply(UnlockErrorLambda([Took(r) EXCEPT !.up.unlockDone = TRUE,
                                                  !.up.unlockFailed = TRUE], code))
    /\ UNCHANGED <<calls, srvLock, tokenCtr>>
    /\ Frame

Replies ==
    \/ LsColSuccess \/ LsColError \/ GetMetadataSuccess \/ GetMetadataError
    \/ RootLsColReply \/ RootGetMetadataReply \/ RootSetupComplete \/ SetupComplete
    \/ LockSuccess \/ LockError \/ UploadSuccess \/ UploadError
    \/ UnlockSuccess \/ UnlockError

\* the owner calls the job only while it is idle, as every caller in the
\* repository does (each waits for fetchFinished/uploadFinished/folderUnlocked)
Next ==
    \/ SetFolderTokenCall
    \/ FetchMetadataCall \/ FetchMetadataWithInfoCall
    \/ UploadMetadataCall \/ UnlockFolderCall
    \/ Replies

Spec == Init /\ [][Next]_vars

\* uploadMetadata() may be called again at any time, also before a reply
UploadMetadataAnytime == UploadMetadataBody

NextOverlap ==
    \/ SetFolderTokenCall
    \/ FetchMetadataCall \/ FetchMetadataWithInfoCall
    \/ UploadMetadataAnytime \/ UnlockFolderCall
    \/ Replies

SpecOverlap == Init /\ [][NextOverlap]_vars

(***************************************************************************)
(* The Model on its own: setup of one FolderMetadata from any document     *)
(***************************************************************************)
FileA == File("e1", "a.txt")

FileB == File("e2", "b.txt")

FileNoName == File("e3", "")

V2UserSets ==
    {{}, {FolderUser(Me, WrapFor(Me, 1))}, {FolderUser(Me, WrapFor(Me, 2))},
     {FolderUser(Other, WrapFor(Other, 1))},
     {FolderUser(Me, WrapFor(Me, 1)), FolderUser(Other, WrapFor(Other, 1))},
     {FolderUser(Me, WrapFor(Other, 1))}, {FolderUser(Me, WrapFor(Me, 9))}}

V2Docs ==
    {DocV2(users, CipherOf(k, tagOk, fs, checksums)) :
        users \in V2UserSets, k \in {1, 9}, tagOk \in BOOLEAN,
        fs \in {<<>>, <<FileA, FileB>>, <<FileA, FileNoName>>},
        checksums \in {{}, {calcSha256(1)}, {calcSha256(2)}, {calcSha256(9)}}}

LegacyDocs ==
    {DocLegacy(version, metadataKey, metadataKeys,
               <<LegacyFile("e1", "a.txt", 2, tagA), LegacyFile("e2", "b.txt", blobKeyB, TRUE)>>,
               LegacyChecksum(names, metadataKey)) :
        version \in {"1.0", "1", "1.2"},
        metadataKey \in {NoWrap, WrapFor(Me, toBase64Twice(2)), WrapFor(Other, toBase64Twice(2))},
        metadataKeys \in {<<>>, <<WrapFor(Me, toBase64Twice(3)), WrapFor(Me, toBase64Twice(2))>>},
        tagA \in BOOLEAN, blobKeyB \in {2, 3}, names \in {{"e1", "e2"}, {"e2"}}}

\* a document whose version no client knows
UnknownVersionDoc == [GoodV2Root EXCEPT !.version = "3.0"]

ModelDocs == V2Docs \cup LegacyDocs \cup {UnknownVersionDoc, EmptyDoc}

ModelInfos ==
    {makeDefault,
     RootEncryptedFolderInfo("/top", NoKey, NoKey, {}),
     RootEncryptedFolderInfo("/top", 1, 1, {calcSha256(1)}),
     RootEncryptedFolderInfo("", NoKey, NoKey, {})}

ModelCapabilities == {10, 12, 20}

InitModel ==
    /\ InitCommon
    /\ uj = NoUsersJob
    /\ ej = NoEncryptFolderJob
    /\ skipChecksumValidation \in BOOLEAN
    /\ capability \in ModelCapabilities
    /\ _rootEncryptedFolderInfo = makeDefault

ModelFrame == UNCHANGED <<calls, srvLock, tokenCtr>> /\ Frame

\* new FolderMetadata(account, metadata, rootEncryptedFolderInfo)
MConstruct ==
    /\ fmPhase = "none"
    /\ \E metadata \in ModelDocs, info \in ModelInfos :
          Apply(ConstructFolderMetadata(Cur, metadata, info))
    /\ ModelFrame

\* the singleShot(0) timer of emitSetupComplete fires
MSetupComplete ==
    /\ fmPhase = "timer"
    /\ Apply([Cur EXCEPT !.fmPhase = "done", !.sig.setup.emitted = @ + 1])
    /\ ModelFrame

NextModel ==
    \/ MConstruct \/ RootLsColReply \/ RootGetMetadataReply \/ RootSetupComplete
    \/ MSetupComplete

SpecModel == InitModel /\ [][NextModel]_vars

(***************************************************************************)
(* The operations on a Model: a Model is set up from a document, its owner *)
(* adds and removes users and files, serializes it, and the result is      *)
(* parsed again with the same account and top-level keys                   *)
(***************************************************************************)
MaxOps == 3

\* what the "folders" object of a V2.0 blob yields for the directory "docs"
DirDocs == FolderEntry(File("e2", "docs"))

\* a top-level V2.0 folder shared with another user: a file and a directory
SharedV2Root ==
    DocV2({FolderUser(Me, WrapFor(Me, 1)), FolderUser(Other, WrapFor(Other, 1))},
          CipherOf(1, TRUE, <<FileA, DirDocs>>, {calcSha256(1)}))

\* a V1.0 document: a map of wrapped keys, the checksum is not looked at
Legacy10 ==
    DocLegacy("1.0", NoWrap, <<WrapFor(Me, toBase64Twice(2))>>,
              <<LegacyFile("e1", "a.txt", 2, TRUE)>>, LegacyChecksum({}, NoWrap))

\* a V1.2 document whose checksum was computed without its file
Legacy12BadChecksum ==
    DocLegacy("1.2", WrapFor(Me, toBase64Twice(2)), <<>>,
              <<LegacyFile("e1", "a.txt", 2, TRUE)>>,
              LegacyChecksum({}, WrapFor(Me, toBase64Twice(2))))

OpsDocs ==
    {EmptyDoc, GoodV2Root, SharedV2Root, NestedV2, Legacy12, Legacy10, Legacy12BadChecksum}

\* a top-level folder, a nested one handed the keys of its top-level folder,
\* and a folder whose caller knows neither path nor keys
OpsInfos ==
    {makeDefault, RootEncryptedFolderInfo("/top", 1, 1, {calcSha256(1)}),
     RootEncryptedFolderInfo("", NoKey, NoKey, {})}

\* the rootEncryptedFolderInfo for parsing what the Model wrote: the one it was
\* constructed with, holding the key a nested folder's document was written with
ReparseInfo ==
    IF fm._isRootEncryptedFolder THEN op.info
    ELSE [op.info EXCEPT !.keyForEncryption = fm._metadataKeyForEncryption,
                         !.keyForDecryption = fm._metadataKeyForEncryption]

\* (userId, certificate) pairs handed to addUser
AddUserInputs ==
    {<<Me, Me>>, <<Other, Other>>, <<Other, "bob-renewed">>,
     <<"", Other>>, <<Other, "">>, <<Other, KeylessCert>>}

RemoveUserInputs == {Me, Other, ""}

\* a new file, and a new upload of the file "a.txt"
AddFileInputs == {File("e3", "c.txt"), File("e4", "a.txt")}

InitOps ==
    /\ InitCommon
    /\ uj = NoUsersJob
    /\ ej = NoEncryptFolderJob
    /\ skipChecksumValidation = FALSE
    /\ capability \in ModelCapabilities
    /\ _rootEncryptedFolderInfo = makeDefault

OpsFrame == UNCHANGED <<calls, srvLock, tokenCtr, capability, skipChecksumValidation, uj, ej>>

Operated(name, userId, certificate, ret, doc) ==
    [op EXCEPT !.n = @ + 1, !.name = name, !.userId = userId, !.certificate = certificate,
               !.file = File("", ""), !.ret = ret, !.before = fm, !.doc = doc]

OConstruct ==
    /\ fmPhase = "none"
    /\ \E metadata \in OpsDocs, info \in OpsInfos :
          /\ Apply(ConstructFolderMetadata(Cur, metadata, info))
          /\ op' = [NoOp EXCEPT !.info = info]
    /\ UNCHANGED reparsed
    /\ OpsFrame

OAddUser ==
    /\ fmPhase = "done" /\ op.n < MaxOps
    /\ \E in \in AddUserInputs :
          LET r == addUser(fm, in[1], in[2], keyCtr)
          IN  /\ Apply([Cur EXCEPT !.fm = r.m, !.keyCtr = IF r.ok THEN @ + 1 ELSE @])
              /\ op' = Operated("addUser", in[1], in[2], r.ok, EmptyDoc)
    /\ reparsed' = NullMetadata
    /\ OpsFrame

ORemoveUser ==
    /\ fmPhase = "done" /\ op.n < MaxOps
    /\ \E userId \in RemoveUserInputs :
          LET r == removeUser(fm, userId, keyCtr)
          IN  /\ Apply([Cur EXCEPT !.fm = r.m, !.keyCtr = IF r.ok THEN @ + 1 ELSE @])
              /\ op' = Operated("removeUser", userId, "", r.ok, EmptyDoc)
    /\ reparsed' = NullMetadata
    /\ OpsFrame

OAddEncryptedFile ==
    /\ fmPhase = "done" /\ op.n < MaxOps
    /\ \E f \in AddFileInputs :
          /\ Apply([Cur EXCEPT !.fm = addEncryptedFile(fm, f)])
          /\ op' = [Operated("addEncryptedFile", "", "", TRUE, EmptyDoc) EXCEPT !.file = f]
    /\ reparsed' = NullMetadata
    /\ OpsFrame

\* the files handed to removeEncryptedFile: one the documents hold, one unknown
RemoveFileInputs == {File("e1", "a.txt"), File("e9", "z.txt")}

ORemoveEncryptedFile ==
    /\ fmPhase = "done" /\ op.n < MaxOps
    /\ \E f \in RemoveFileInputs :
          /\ Apply([Cur EXCEPT !.fm = removeEncryptedFile(fm, f)])
          /\ op' = [Operated("removeEncryptedFile", "", "", TRUE, EmptyDoc) EXCEPT !.file = f]
    /\ reparsed' = NullMetadata
    /\ OpsFrame

ORemoveAllEncryptedFiles ==
    /\ fmPhase = "done" /\ op.n < MaxOps
    /\ Apply([Cur EXCEPT !.fm = removeAllEncryptedFiles(fm)])
    /\ op' = Operated("removeAllEncryptedFiles", "", "", TRUE, EmptyDoc)
    /\ reparsed' = NullMetadata
    /\ OpsFrame

OEncryptedMetadata ==
    /\ fmPhase = "done" /\ op.n < MaxOps
    /\ LET r == encryptedMetadata(fm, keyCtr)
       IN  /\ Apply([Cur EXCEPT !.fm = r.m, !.keyCtr = @ + 1])
           /\ op' = Operated("encryptedMetadata", "", "", r.doc # EmptyDoc, r.doc)
    /\ reparsed' = NullMetadata
    /\ OpsFrame

\* new FolderMetadata(account, op.doc, ReparseInfo): the document just written
\* is parsed by the same account with the same keys
OReparse ==
    /\ fmPhase = "done" /\ op.name = "encryptedMetadata" /\ op.doc # EmptyDoc
    /\ reparsed = NullMetadata
    /\ reparsed' = setupMetadata(NewFolderMetadata(op.doc, ReparseInfo), keyCtr)
    /\ Apply(Cur)
    /\ UNCHANGED op
    /\ OpsFrame

NextOps ==
    \/ OConstruct \/ MSetupComplete
    \/ OAddUser \/ ORemoveUser \/ OAddEncryptedFile \/ ORemoveEncryptedFile
    \/ ORemoveAllEncryptedFiles \/ OEncryptedMetadata \/ OReparse

SpecOps == InitOps /\ [][NextOps]_vars

(***************************************************************************)
(* UpdateE2eeFolderUsersMetadataJob: the job that adds or removes a user   *)
(* of a top-level folder, and the ReEncrypt sub-jobs it runs for the       *)
(* directories the journal knows below it.  Jobs are named by their path;  *)
(* every handler takes the state u of all jobs and the job j it runs in.   *)
(***************************************************************************)
Add == "Add"
Remove == "Remove"
ReEncrypt == "ReEncrypt"

\* the path of the job a user starts, and the directories below it; a second
\* top-level folder of the account
RootJob == "top"
SubDirs == {"top/d1", "top/d2"}
SecondJob == "top2"
TopLevelJobs == {RootJob, SecondJob}

\* SyncFileItem::Status::FatalError, passed as the int of finished()
FatalError == 1

\* the members after the constructor; finished is connected to deleteLater,
\* certificateReady to slotCertificateReady for Operation::Add only
NewUsersJob(journalDb, operation, path, folderUserId, certificate) ==
    [phase |-> "constructed",
     _journalDb |-> journalDb,
     _operation |-> operation,
     _path |-> path,
     _folderUserId |-> folderUserId,
     _folderUserCertificate |-> certificate,
     _folderId |-> "",
     _folderToken |-> NoToken,
     _metadataKeyForEncryption |-> NoKey,
     _metadataKeyForDecryption |-> NoKey,
     _keyChecksums |-> {},
     _folderMetadata |-> NullMetadata,
     _subJobs |-> {},
     _pathsForDbRecordsToUpdate |-> <<>>,
     certificateReadySlots |-> IF operation = Add THEN {"slotCertificateReady"} ELSE {}]

USend(u, j, kind) == [u EXCEPT !.net = @ \cup {[job |-> j, kind |-> kind]}]

UReceive(u, j, kind) == [u EXCEPT !.net = @ \ {[job |-> j, kind |-> kind]}]

\* what the job of the first folder and its sub-jobs did is recorded in log,
\* in order; what the job of the second folder did, in log2
ULog(u, j, ev, code) ==
    IF j = SecondJob
    THEN [u EXCEPT !.log2 = Append(@, [job |-> j, ev |-> ev, code |-> code])]
    ELSE [u EXCEPT !.log = Append(@, [job |-> j, ev |-> ev, code |-> code])]

\* connect(_account->e2e(), signal, job j, slot) and its disconnect; the slots
\* of a signal run in the order they were connected
UConnect(u, j, signal) == [u EXCEPT !.slots = Append(@, [job |-> j, signal |-> signal])]

UDisconnect(u, j, signal) ==
    [u EXCEPT !.slots = SelectSeq(@, LAMBDA c : ~(c.job = j /\ c.signal = signal))]

\* ClientSideEncryption::fetchFromKeyChain(account, userId),
\* getUsersPublicKeyFromServer(account, {userId}) and
\* writeCertificate(account, userId, certificate): each answers later with a
\* signal of the account's ClientSideEncryption object
fetchFromKeyChain(u, userId) ==
    [u EXCEPT !.e2e = @ \cup {[kind |-> "keychainRead", user |-> userId]}]

getUsersPublicKeyFromServer(u, userId) ==
    [u EXCEPT !.e2e = @ \cup {[kind |-> "serverCertificates", user |-> userId]}]

writeCertificate(u, userId, certificate) ==
    [u EXCEPT !.e2e = @ \cup {[kind |-> "certificateWrite", user |-> userId]},
              !.keychain[userId] = certificate]

\* QSet::values().last(): the order of a QSet is the order of its hash table
LastOf(u, jobs) ==
    LET ranked == SelectSeq(u.order, LAMBDA p : p \in jobs)
    IN  ranked[Len(ranked)]

\* deleteLater() of a job: the job, its requests and its children go
DeleteLater(u, j) ==
    LET gone == IF j = RootJob THEN DOMAIN u.job \ {SecondJob} ELSE {j}
    IN  [u EXCEPT !.job = [p \in DOMAIN u.job |->
                              IF p \in gone THEN [u.job[p] EXCEPT !.phase = "deleted"]
                              ELSE u.job[p]],
                  !.net = {r \in @ : r.job \notin gone},
                  !.slots = SelectSeq(@, LAMBDA c : c.job \notin gone)]

RECURSIVE UJ_emitFinished(_, _, _)

\* the lambda UpdateMigratedE2eeMetadataJob::start connects to the finished of
\* the job it started: emit finished(SyncFileItem::Status::Success)
UpdateMigrated_finishedLambda(u) ==
    IF u.migrated.connected
    THEN [u EXCEPT !.migrated.finished = Append(@, "Success")]
    ELSE u

\* UpdateE2eeFolderUsersMetadataJob::slotUnlockFolder
UJ_slotUnlockFolder(u, j) ==
    IF ~u.job[j]._journalDb THEN UJ_emitFinished(u, j, 404)
    ELSE USend(ULog(u, j, "unlockRequest", 0), j, "unlock")

\* UpdateE2eeFolderUsersMetadataJob::slotFetchFolderMetadata
UJ_slotFetchFolderMetadata(u, j) == USend(ULog(u, j, "getMetadata", 0), j, "getMetadata")

\* UpdateE2eeFolderUsersMetadataJob::slotLockFolder; Q_ASSERT is compiled out
UJ_slotLockFolder(u, j) ==
    IF u.job[j]._operation \notin {Add, Remove} THEN UJ_emitFinished(u, j, -1)
    ELSE IF ~u.job[j]._journalDb THEN UJ_emitFinished(u, j, 404)
    ELSE USend(ULog(u, j, "lockRequest", 0), j, "lock")

\* UpdateE2eeFolderUsersMetadataJob::slotCertificateReady
UJ_slotCertificateReady(u, j) ==
    IF u.job[j]._folderUserCertificate = "" THEN UJ_emitFinished(u, j, 404)
    ELSE UJ_slotLockFolder(u, j)

\* emit certificateReady()
UJ_emitCertificateReady(u, j) ==
    IF "slotCertificateReady" \in u.job[j].certificateReadySlots
    THEN UJ_slotCertificateReady(u, j)
    ELSE u

\* UpdateE2eeFolderUsersMetadataJob::slotCertificateFetchedFromKeychain
UJ_slotCertificateFetchedFromKeychain(u, j, certificate) ==
    LET u1 == UDisconnect(u, j, "certificateFetchedFromKeychain")
    IN  IF certificate = ""
        THEN UConnect(getUsersPublicKeyFromServer(
                          ULog(u1, j, "getUsersPublicKeyFromServer", 0),
                          u1.job[j]._folderUserId),
                      j, "certificatesFetchedFromServer")
        ELSE UJ_emitCertificateReady(
                 [u1 EXCEPT !.job[j]._folderUserCertificate = certificate], j)

\* UpdateE2eeFolderUsersMetadataJob::slotCertificatesFetchedFromServer;
\* results holds a certificate for the users the server knows one of
UJ_slotCertificatesFetchedFromServer(u, j, results) ==
    LET userId == u.job[j]._folderUserId
        certificate == IF DOMAIN results = {} THEN ""
                       ELSE IF userId \in DOMAIN results THEN results[userId]
                       ELSE ""
    IN  IF certificate = "" THEN UJ_emitCertificateReady(u, j)
        ELSE UConnect(writeCertificate(ULog(u, j, "writeCertificate", 0),
                                       userId, certificate),
                      j, "certificateWriteComplete")

\* startUpdate fetching the metadata for Operation::Remove without a lock
UJ_startUpdateWithoutLock(u, j) ==
    LET job == u.job[j]
    IN  IF ~job._journalDb THEN UJ_emitFinished(u, j, 404)
        ELSE IF job._operation = Add
        THEN IF job._folderUserCertificate # "" THEN UJ_emitCertificateReady(u, j)
             ELSE fetchFromKeyChain(
                      UConnect(ULog(u, j, "fetchFromKeyChain", 0),
                               j, "certificateFetchedFromKeychain"),
                      job._folderUserId)
        ELSE UJ_slotFetchFolderMetadata(u, j)

\* UpdateE2eeFolderUsersMetadataJob::startUpdate
UJ_startUpdate(u, j) ==
    LET job == u.job[j]
    IN  IF ~job._journalDb THEN UJ_emitFinished(u, j, 404)
        ELSE IF job._operation = Add
        THEN IF job._folderUserCertificate # "" THEN UJ_emitCertificateReady(u, j)
             ELSE fetchFromKeyChain(
                      UConnect(ULog(u, j, "fetchFromKeyChain", 0),
                               j, "certificateFetchedFromKeychain"),
                      job._folderUserId)
        ELSE IF job._operation = Remove THEN UJ_slotLockFolder(u, j)
        ELSE IF job._operation = ReEncrypt THEN UJ_slotFetchFolderMetadata(u, j)
        ELSE UJ_emitFinished(u, j, 404)

\* UpdateE2eeFolderUsersMetadataJob::start
UJ_start(u, j) ==
    LET u1 == ULog([u EXCEPT !.job[j].phase = "started"], j, "start", 0)
    IN  IF ~u1.job[j]._journalDb THEN UJ_emitFinished(u1, j, 404)
        ELSE USend(u1, j, "lsCol")

\* UpdateE2eeFolderUsersMetadataJob::slotFolderEncryptedIdReceived
UJ_slotFolderEncryptedIdReceived(u, j, list) ==
    IF list = <<>> THEN UJ_emitFinished(u, j, FatalError)
    ELSE UJ_startUpdate([u EXCEPT !.job[j]._folderId = list[1]], j)

\* UpdateE2eeFolderUsersMetadataJob::slotFolderEncryptedIdError
UJ_slotFolderEncryptedIdError(u, j) == UJ_emitFinished(u, j, FatalError)

\* UpdateE2eeFolderUsersMetadataJob::slotFolderLockedSuccessfully
UJ_slotFolderLockedSuccessfully(u, j, token) ==
    UJ_slotFetchFolderMetadata(
        ULog([u EXCEPT !.job[j]._folderToken = token], j, "lockSuccess", 0), j)

\* UpdateE2eeFolderUsersMetadataJob::slotFolderLockedError
UJ_slotFolderLockedError(u, j) == UJ_emitFinished(u, j, 404)

\* FolderMetadata::setKeyChecksums
setKeyChecksums(m, keyChecksums) == [m EXCEPT !._keyChecksums = keyChecksums]

\* UpdateE2eeFolderUsersMetadataJob::slotMetadataReceived; found is the result
\* of getTopLevelE2eFolderRecord, the record being the job's own folder for
\* the job of a top-level folder.  The keys a sub-job was handed are set, so
\* the constructor of FolderMetadata sets the Model up at once and its timer
\* emits setupComplete
UJ_slotMetadataReceived(u, j, json, statusCode, found, fresh) ==
    LET job == u.job[j]
        rootE2eeFolderPath == IF j \in SubDirs THEN "/" \o RootJob ELSE "/"
        topLevelInitData == RootEncryptedFolderInfo(rootE2eeFolderPath,
                                job._metadataKeyForEncryption,
                                job._metadataKeyForDecryption, job._keyChecksums)
        m == setupMetadata(
                 NewFolderMetadata(IF statusCode = 404 THEN EmptyDoc ELSE json,
                                   topLevelInitData), fresh)
    IN  IF ~job._journalDb THEN UJ_emitFinished(u, j, 404)
        ELSE IF ~found THEN UJ_emitFinished(u, j, -1)
        ELSE USend(ULog([u EXCEPT !.job[j]._folderMetadata =
                                      setKeyChecksums(m, job._keyChecksums)],
                        j, "metadataReceived", statusCode), j, "setupComplete")

\* UpdateE2eeFolderUsersMetadataJob::slotMetadataError
UJ_slotMetadataError(u, j) == UJ_emitFinished(u, j, 404)

\* UpdateE2eeFolderUsersMetadataJob::slotUpdateFolderMetadata
UJ_slotUpdateFolderMetadata(u, j, fresh) ==
    LET r == encryptedMetadata(u.job[j]._folderMetadata, fresh)
        u1 == [u EXCEPT !.job[j]._folderMetadata = r.m]
    IN  IF r.doc = EmptyDoc THEN UJ_emitFinished(u1, j, -1)
        ELSE USend(ULog(u1, j, "updateMetadata", 0), j, "updateMetadata")

\* the lambda slotMetadataReceived connects to setupComplete
UJ_setupCompleteLambda(u, j, fresh) ==
    LET job == u.job[j]
        r == IF job._operation = Add
             THEN addUser(job._folderMetadata, job._folderUserId,
                          job._folderUserCertificate, fresh)
             ELSE removeUser(job._folderMetadata, job._folderUserId, fresh)
        u1 == ULog([u EXCEPT !.job[j]._folderMetadata = r.m], j,
                   IF job._operation = Add THEN "addUser" ELSE "removeUser",
                   IF r.ok THEN 1 ELSE 0)
    IN  IF ~isValid(job._folderMetadata) THEN UJ_slotUnlockFolder(u, j)
        ELSE IF job._operation = ReEncrypt THEN UJ_slotUpdateFolderMetadata(u, j, fresh)
        ELSE IF job._operation \in {Add, Remove}
        THEN IF ~r.ok THEN UJ_emitFinished(u1, j, 403)
             ELSE UJ_slotUpdateFolderMetadata(u1, j, fresh + 1)
        ELSE UJ_emitFinished(u, j, -1)

\* UpdateE2eeFolderUsersMetadataJob::slotScheduleSubJobs: one ReEncrypt job
\* for every directory record getFilesBelowPath finds
RECURSIVE ScheduleSubJobs(_, _, _)

ScheduleSubJobs(u, j, records) ==
    IF records = <<>> THEN u
    ELSE LET job == u.job[j]
             path == Head(records)
             subJob == [NewUsersJob(job._journalDb, ReEncrypt, path, "", "")
                           EXCEPT !._metadataKeyForEncryption =
                                      job._folderMetadata._metadataKeyForEncryption,
                                  !._metadataKeyForDecryption =
                                      job._folderMetadata._metadataKeyForDecryption,
                                  !._keyChecksums = job._folderMetadata._keyChecksums,
                                  !._folderToken = job._folderToken]
             u1 == [u EXCEPT !.job = [p \in DOMAIN @ \cup {path} |->
                                         IF p = path THEN subJob ELSE @[p]],
                             !.job[j]._subJobs = @ \cup {path},
                             !.job[j]._pathsForDbRecordsToUpdate = Append(@, path)]
         IN  ScheduleSubJobs(ULog(u1, path, "scheduled", 0), j, Tail(records))

UJ_slotScheduleSubJobs(u, j) == ScheduleSubJobs(u, j, u.journal)

\* slotUpdateMetadataSuccess starting every scheduled sub-job at once
UJ_slotUpdateMetadataSuccessStartingAll(u, j) ==
    LET u1 == UJ_slotScheduleSubJobs(ULog(u, j, "updateMetadataSuccess", 0), j)
    IN  IF u.job[j]._operation = ReEncrypt THEN UJ_emitFinished(u, j, 200)
        ELSE IF u1.job[j]._subJobs = {} THEN UJ_slotUnlockFolder(u1, j)
        ELSE IF Len(u1.journal) = 2 THEN UJ_start(UJ_start(u1, u1.journal[1]), u1.journal[2])
        ELSE UJ_start(u1, LastOf(u1, u1.job[j]._subJobs))

\* UpdateE2eeFolderUsersMetadataJob::slotUpdateMetadataSuccess
UJ_slotUpdateMetadataSuccess(u, j) ==
    IF u.job[j]._operation \in {Add, Remove}
    THEN LET u1 == UJ_slotScheduleSubJobs(ULog(u, j, "updateMetadataSuccess", 0), j)
         IN  IF u1.job[j]._subJobs = {} THEN UJ_slotUnlockFolder(u1, j)
             ELSE UJ_start(u1, LastOf(u1, u1.job[j]._subJobs))
    ELSE UJ_emitFinished(u, j, 200)

\* UpdateE2eeFolderUsersMetadataJob::slotUpdateMetadataError
UJ_slotUpdateMetadataError(u, j, httpErrorResponse) ==
    IF u.job[j]._operation \in {Add, Remove}
    THEN UJ_slotUnlockFolder(ULog(u, j, "updateMetadataError", httpErrorResponse), j)
    ELSE UJ_emitFinished(u, j, httpErrorResponse)

\* UpdateE2eeFolderUsersMetadataJob::slotFolderUnlocked
UJ_slotFolderUnlocked(u, j, httpStatus) == UJ_emitFinished(u, j, httpStatus)

\* the lambda slotUnlockFolder connects to UnlockEncryptFolderApiJob::success:
\* the journal records of the sub-folders take the Model's encryption status
UJ_unlockSuccessLambda(u, j) ==
    LET job == u.job[j]
        u1 == [u EXCEPT !.job[j]._folderToken = NoToken,
                        !.job[j]._folderId = "",
                        !.updated = @ \cup Range(job._pathsForDbRecordsToUpdate)]
    IN  UJ_slotFolderUnlocked(ULog(u1, j, "unlockSuccess", 200), j, 200)

\* the lambda slotUnlockFolder connects to UnlockEncryptFolderApiJob::error
UJ_unlockErrorLambda(u, j, httpStatus) ==
    UJ_slotFolderUnlocked(ULog(u, j, "unlockError", httpStatus), j, httpStatus)

\* UpdateE2eeFolderUsersMetadataJob::slotSubJobsFinished
UJ_slotSubJobsFinished(u, j) == UJ_slotUnlockFolder(u, j)

\* slotSubJobFinished going on to the next sub-job whatever the code
UJ_slotSubJobFinishedIgnoringCode(u, j, sender, code) ==
    LET u1 == [u EXCEPT !.job[j]._subJobs = @ \ {sender}]
    IN  IF u1.job[j]._subJobs = {} THEN UJ_slotSubJobsFinished(u1, j)
        ELSE UJ_start(u1, LastOf(u1, u1.job[j]._subJobs))

\* UpdateE2eeFolderUsersMetadataJob::slotSubJobFinished, sender() being the
\* sub-job
UJ_slotSubJobFinished(u, j, sender, code) ==
    IF code # 200
    THEN UJ_slotUnlockFolder([u EXCEPT !.job[j]._pathsForDbRecordsToUpdate = <<>>], j)
    ELSE LET u1 == [u EXCEPT !.job[j]._subJobs = @ \ {sender}]
         IN  IF u1.job[j]._subJobs = {} THEN UJ_slotSubJobsFinished(u1, j)
             ELSE UJ_start(u1, LastOf(u1, u1.job[j]._subJobs))

\* emit finished(code): deleteLater() of the job, then, for a sub-job, the
\* slotSubJobFinished of the job that scheduled it
UJ_emitFinished(u, j, code) ==
    LET u1 == DeleteLater(ULog(u, j, "finished", code), j)
    IN  IF j \in SubDirs /\ u1.job[RootJob].phase # "deleted"
        THEN UJ_slotSubJobFinished(u1, RootJob, j, code)
        ELSE IF j = RootJob THEN UpdateMigrated_finishedLambda(u1)
        ELSE u1

\* UpdateMigratedE2eeMetadataJob::start: the job is created and started, and
\* only then is its finished connected to the lambda
UpdateMigrated_start(u) == [UJ_start(u, RootJob) EXCEPT !.migrated.connected = TRUE]

\* UpdateMigratedE2eeMetadataJob::scheduleSelfOrChild
UpdateMigrated_scheduleSelfOrChild(u) ==
    IF u.migrated._state = "Finished" THEN u
    ELSE IF u.migrated._state = "NotYetStarted"
    THEN UpdateMigrated_start([u EXCEPT !.migrated._state = "Running"])
    ELSE u

(***************************************************************************)
(* The membership job of a top-level folder: its constructor's arguments,  *)
(* the keychain, the server and the journal, and the replies it receives   *)
(***************************************************************************)
\* documents the top-level folder may hold, and documents of its directories
UsersRootDocs == {GoodV2Root, SharedV2Root, ForeignV2Root, BadTagV2Root}

\* a directory still in the V1.2 format whose key the account cannot decrypt
ForeignLegacy12 ==
    DocLegacy("1.2", WrapFor(Other, toBase64Twice(2)), <<>>,
              <<LegacyFile("e1", "a.txt", 2, TRUE)>>,
              LegacyChecksum({"e1"}, WrapFor(Other, toBase64Twice(2))))

UsersSubDocs ==
    {NestedV2, DocV2({}, CipherOf(1, FALSE, <<File("e2", "b.txt")>>, {})), ForeignLegacy12}

\* the directory records getFilesBelowPath finds, and the orders of a QSet
UsersJournals == {<<>>, <<"top/d1">>, <<"top/d1", "top/d2">>}

UsersOrders == {<<"top/d1", "top/d2">>, <<"top/d2", "top/d1">>}

UpdateMetadataErrorCodes == {500}

\* a signal of the account's ClientSideEncryption object is emitted: the slots
\* connected to it when it is emitted run in connection order, each unless it
\* was disconnected meanwhile; certificateWriteComplete is connected to the
\* signal certificateReady of the job
RECURSIVE UEmit(_, _, _, _)

UEmit(u, signal, arg, conns) ==
    IF conns = <<>> THEN u
    ELSE LET c == Head(conns)
             connected == c.signal = signal /\ \E i \in DOMAIN u.slots : u.slots[i] = c
             u1 == IF ~connected THEN u
                   ELSE IF signal = "certificateFetchedFromKeychain"
                   THEN UJ_slotCertificateFetchedFromKeychain(u, c.job, arg)
                   ELSE IF signal = "certificatesFetchedFromServer"
                   THEN UJ_slotCertificatesFetchedFromServer(u, c.job, arg)
                   ELSE UJ_emitCertificateReady(u, c.job)
         IN  UEmit(u1, signal, arg, Tail(conns))

InitUsers ==
    /\ InitCommon
    /\ ej = NoEncryptFolderJob
    /\ skipChecksumValidation = FALSE
    /\ capability \in JobCapabilities
    /\ _rootEncryptedFolderInfo = makeDefault
    /\ \E journalDb \in BOOLEAN, operation \in {Add, Remove},
          certificate \in {"", Other, KeylessCert},
          keychain \in {"", Other}, server \in {"", Other},
          journal \in UsersJournals, order \in UsersOrders, migrated \in BOOLEAN,
          second \in BOOLEAN, keychain2 \in {"", Carol} :
          /\ operation = Remove => certificate = "" /\ keychain = "" /\ server = ""
          /\ Len(journal) < 2 => order = <<"top/d1", "top/d2">>
          /\ migrated => operation = Add /\ certificate = ""
          /\ second => /\ journalDb /\ operation = Add /\ certificate = "" /\ server = ""
                       /\ journal = <<>> /\ ~migrated
          /\ ~second => keychain2 = ""
          /\ uj = [job |-> [p \in IF second THEN TopLevelJobs ELSE {RootJob} |->
                              IF p = RootJob
                              THEN NewUsersJob(journalDb, operation, RootJob, Other,
                                               certificate)
                              ELSE NewUsersJob(TRUE, Add, SecondJob, Carol, "")],
                   net |-> {}, log |-> <<>>, log2 |-> <<>>,
                   keychain |-> [NoCertificates EXCEPT ![Other] = keychain,
                                                       ![Carol] = keychain2],
                   server |-> [NoCertificates EXCEPT ![Other] = server],
                   e2e |-> {}, slots |-> <<>>,
                   journal |-> journal, order |-> order, updated |-> {},
                   migrated |-> IF migrated
                                THEN [NoMigratedJob EXCEPT !._state = "NotYetStarted"]
                                ELSE NoMigratedJob]

UsersFrame ==
    UNCHANGED <<capability, skipChecksumValidation, fmVars, jobVars, netVars, obsVars, opVars, ej>>

Pending(kind) == {r \in uj.net : r.kind = kind}

\* the owner of the job calls start()
UStart ==
    /\ uj.migrated._state = "None"
    /\ \E j \in TopLevelJobs \cap DOMAIN uj.job :
          /\ uj.job[j].phase = "constructed"
          /\ uj' = UJ_start(uj, j)
    /\ UNCHANGED keyCtr /\ UsersFrame

\* the propagator schedules the UpdateMigratedE2eeMetadataJob
UMigratedSchedule ==
    /\ uj.migrated._state = "NotYetStarted"
    /\ uj' = UpdateMigrated_scheduleSelfOrChild(uj)
    /\ UNCHANGED keyCtr /\ UsersFrame

ULsColSuccess ==
    /\ \E r \in Pending("lsCol"), list \in {<<"id">>, <<>>} :
          uj' = UJ_slotFolderEncryptedIdReceived(UReceive(uj, r.job, "lsCol"), r.job, list)
    /\ UNCHANGED keyCtr /\ UsersFrame

ULsColError ==
    /\ \E r \in Pending("lsCol") :
          uj' = UJ_slotFolderEncryptedIdError(UReceive(uj, r.job, "lsCol"), r.job)
    /\ UNCHANGED keyCtr /\ UsersFrame

\* a request of the account's ClientSideEncryption object completes
E2eRequests(kind) == {q \in uj.e2e : q.kind = kind}

\* the keychain read of a user completes:
\* emit certificateFetchedFromKeychain(certificate)
UCertificateFetchedFromKeychain ==
    /\ \E q \in E2eRequests("keychainRead") :
          uj' = UEmit([uj EXCEPT !.e2e = @ \ {q}], "certificateFetchedFromKeychain",
                      uj.keychain[q.user], uj.slots)
    /\ UNCHANGED keyCtr /\ UsersFrame

\* the server's answer to a request for a user's certificate arrives:
\* emit certificatesFetchedFromServer(results)
UCertificatesFetchedFromServer ==
    /\ \E q \in E2eRequests("serverCertificates") :
          uj' = UEmit([uj EXCEPT !.e2e = @ \ {q}], "certificatesFetchedFromServer",
                      [x \in {y \in {q.user} : uj.server[y] # ""} |-> uj.server[x]],
                      uj.slots)
    /\ UNCHANGED keyCtr /\ UsersFrame

\* the keychain write of a certificate completes:
\* emit certificateWriteComplete(certificate)
UCertificateWriteComplete ==
    /\ \E q \in E2eRequests("certificateWrite") :
          uj' = UEmit([uj EXCEPT !.e2e = @ \ {q}], "certificateWriteComplete",
                      uj.keychain[q.user], uj.slots)
    /\ UNCHANGED keyCtr /\ UsersFrame

ULockSuccess ==
    /\ \E r \in Pending("lock") :
          uj' = UJ_slotFolderLockedSuccessfully(UReceive(uj, r.job, "lock"), r.job,
                                                ParentToken)
    /\ UNCHANGED keyCtr /\ UsersFrame

ULockError ==
    /\ \E r \in Pending("lock") :
          uj' = UJ_slotFolderLockedError(UReceive(uj, r.job, "lock"), r.job)
    /\ UNCHANGED keyCtr /\ UsersFrame

\* GetMetadataApiJob::jsonReceived
UGetMetadataSuccess ==
    /\ \E r \in Pending("getMetadata"), statusCode \in {200, 404}, found \in BOOLEAN :
          \E json \in IF r.job \in SubDirs THEN UsersSubDocs ELSE UsersRootDocs :
             uj' = UJ_slotMetadataReceived(UReceive(uj, r.job, "getMetadata"), r.job,
                                           json, statusCode, found, keyCtr)
    /\ keyCtr' = keyCtr + 1
    /\ UsersFrame

UGetMetadataError ==
    /\ \E r \in Pending("getMetadata") :
          uj' = UJ_slotMetadataError(UReceive(uj, r.job, "getMetadata"), r.job)
    /\ UNCHANGED keyCtr /\ UsersFrame

\* the singleShot(0) timer of emitSetupComplete fires
USetupComplete ==
    /\ \E r \in Pending("setupComplete") :
          uj' = UJ_setupCompleteLambda(UReceive(uj, r.job, "setupComplete"), r.job, keyCtr)
    /\ keyCtr' = keyCtr + 2
    /\ UsersFrame

UUpdateMetadataSuccess ==
    /\ \E r \in Pending("updateMetadata") :
          uj' = UJ_slotUpdateMetadataSuccess(UReceive(uj, r.job, "updateMetadata"), r.job)
    /\ UNCHANGED keyCtr /\ UsersFrame

UUpdateMetadataError ==
    /\ \E r \in Pending("updateMetadata"), httpErrorResponse \in UpdateMetadataErrorCodes :
          uj' = UJ_slotUpdateMetadataError(UReceive(uj, r.job, "updateMetadata"), r.job,
                                           httpErrorResponse)
    /\ UNCHANGED keyCtr /\ UsersFrame

UUnlockSuccess ==
    /\ \E r \in Pending("unlock") :
          uj' = UJ_unlockSuccessLambda(UReceive(uj, r.job, "unlock"), r.job)
    /\ UNCHANGED keyCtr /\ UsersFrame

UUnlockError ==
    /\ \E r \in Pending("unlock"), httpStatus \in UnlockErrorCodes :
          uj' = UJ_unlockErrorLambda(UReceive(uj, r.job, "unlock"), r.job, httpStatus)
    /\ UNCHANGED keyCtr /\ UsersFrame

NextUsers ==
    \/ UStart \/ UMigratedSchedule \/ ULsColError \/ ULsColSuccess
    \/ UCertificateFetchedFromKeychain \/ UCertificatesFetchedFromServer
    \/ UCertificateWriteComplete
    \/ ULockSuccess \/ ULockError \/ UGetMetadataSuccess \/ UGetMetadataError
    \/ USetupComplete \/ UUpdateMetadataSuccess \/ UUpdateMetadataError
    \/ UUnlockSuccess \/ UUnlockError

SpecUsers == InitUsers /\ [][NextUsers]_vars

(***************************************************************************)
(* Properties of the orchestration job and of the Model                    *)
(***************************************************************************)

(***************************************************************************)
(* EncryptFolderJob: marks a folder encrypted, locks it, stores the        *)
(* metadata of an empty Model and unlocks it.  The folder is a top-level   *)
(* folder: the record getRootE2eFolderRecord finds is the folder's own.    *)
(***************************************************************************)
\* the job after its constructor; rec is what getFileRecord finds, canCreate
\* whether _propagator and _item are set and updateMetadata succeeds
NewEncryptFolderJob(recValid, recEncrypted, rootFound, canCreate) ==
    [phase |-> "constructed",
     _folderToken |-> NoToken,
     _folderEncryptionStatus |-> VersionUndefined,
     _errorString |-> "",
     journal |-> [valid |-> recValid, encrypted |-> recEncrypted,
                  rootFound |-> rootFound, canCreate |-> canCreate],
     emptyMetadata |-> NullMetadata,
     net |-> {},
     stored |-> "none",
     unlockRequests |-> 0,
     finished |-> <<>>]

ESend(e, kind) == [e EXCEPT !.net = @ \cup {kind}]

EReceive(e, kind) == [e EXCEPT !.net = @ \ {kind}]

\* emit finished(status, encryptionStatus)
EF_emitFinished(e, status, encryptionStatus) ==
    [e EXCEPT !.phase = "finished",
              !.finished = Append(@, [status |-> status,
                                      encryptionStatus |-> encryptionStatus])]

\* EncryptFolderJob::slotSetEncryptionFlag
EF_slotSetEncryptionFlag(e) == ESend(e, "setFlag")

\* EncryptFolderJob::start
EF_start(e) == EF_slotSetEncryptionFlag([e EXCEPT !.phase = "started"])

\* EncryptFolderJob::slotEncryptionFlagSuccess: the record is created when
\* the journal has none, marked encrypted, and the lock is requested
EF_slotEncryptionFlagSuccess(e) ==
    LET created == ~e.journal.valid /\ e.journal.canCreate
        e1 == [e EXCEPT !.journal.valid = @ \/ created,
                        !.journal.encrypted = TRUE]
    IN  ESend(e1, "lock")

\* EncryptFolderJob::slotEncryptionFlagError
EF_slotEncryptionFlagError(e, errorMessage) ==
    EF_emitFinished([e EXCEPT !._errorString = errorMessage], "Error", "NotEncrypted")

\* EncryptFolderJob::slotLockForEncryptionSuccess: the Model of a folder without
\* metadata is constructed; its timer emits setupComplete
EF_slotLockForEncryptionSuccess(e, token, fresh) ==
    LET e1 == [e EXCEPT !._folderToken = token]
    IN  IF ~e.journal.rootFound THEN EF_emitFinished(e1, "Error", "NotEncrypted")
        ELSE ESend([e1 EXCEPT !.emptyMetadata =
                                  setupMetadata(NewFolderMetadata(EmptyDoc, makeDefault),
                                                fresh)],
                   "setupComplete")

\* the lambda slotLockForEncryptionSuccess connects to setupComplete
EF_setupCompleteLambda(e, fresh) ==
    LET r == encryptedMetadata(e.emptyMetadata, fresh)
    IN  IF r.doc = EmptyDoc
        THEN EF_emitFinished([e EXCEPT !.emptyMetadata = r.m,
                                       !._errorString = "Could not generate the metadata"],
                             "Error", "NotEncrypted")
        ELSE ESend([e EXCEPT !.emptyMetadata = r.m,
                             !._folderEncryptionStatus = r.m._encryptedMetadataVersion],
                   "store")

\* EncryptFolderJob::slotUploadMetadataSuccess
EF_slotUploadMetadataSuccess(e) ==
    ESend([e EXCEPT !.unlockRequests = @ + 1], "unlock")

\* EncryptFolderJob::slotUpdateMetadataError
EF_slotUpdateMetadataError(e, httpReturnCode) ==
    ESend([e EXCEPT !.unlockRequests = @ + 1], "unlock")

\* EncryptFolderJob::slotLockForEncryptionError
EF_slotLockForEncryptionError(e, errorMessage) ==
    EF_emitFinished([e EXCEPT !._errorString = errorMessage], "Error", "NotEncrypted")

\* EncryptFolderJob::slotUnlockFolderError
EF_slotUnlockFolderError(e, errorMessage) ==
    EF_emitFinished([e EXCEPT !._errorString = errorMessage], "Error", "NotEncrypted")

\* EncryptFolderJob::slotUnlockFolderSuccess
EF_slotUnlockFolderSuccess(e) == EF_emitFinished(e, "Success", e._folderEncryptionStatus)

InitEncrypt ==
    /\ InitCommon
    /\ uj = NoUsersJob
    /\ skipChecksumValidation = FALSE
    /\ capability \in ModelCapabilities
    /\ _rootEncryptedFolderInfo = makeDefault
    /\ \E recValid, recEncrypted, rootFound, canCreate \in BOOLEAN :
          /\ recEncrypted => recValid
          /\ ej = NewEncryptFolderJob(recValid, recEncrypted, rootFound, canCreate)

EncryptFrame ==
    UNCHANGED <<capability, skipChecksumValidation, fmVars, jobVars, netVars, obsVars,
                opVars, uj>>

EStart ==
    /\ ej.phase = "constructed"
    /\ ej' = EF_start(ej)
    /\ UNCHANGED keyCtr /\ EncryptFrame

EFlagSuccess ==
    /\ "setFlag" \in ej.net
    /\ ej' = EF_slotEncryptionFlagSuccess(EReceive(ej, "setFlag"))
    /\ UNCHANGED keyCtr /\ EncryptFrame

EFlagError ==
    /\ "setFlag" \in ej.net
    /\ \E errorMessage \in {"forbidden"} :
          ej' = EF_slotEncryptionFlagError(EReceive(ej, "setFlag"), errorMessage)
    /\ UNCHANGED keyCtr /\ EncryptFrame

ELockSuccess ==
    /\ "lock" \in ej.net
    /\ ej' = EF_slotLockForEncryptionSuccess(EReceive(ej, "lock"), ParentToken, keyCtr)
    /\ keyCtr' = keyCtr + 1
    /\ EncryptFrame

ELockError ==
    /\ "lock" \in ej.net
    /\ \E errorMessage \in {"locked"} :
          ej' = EF_slotLockForEncryptionError(EReceive(ej, "lock"), errorMessage)
    /\ UNCHANGED keyCtr /\ EncryptFrame

\* the singleShot(0) timer of the Model's emitSetupComplete fires
ESetupComplete ==
    /\ "setupComplete" \in ej.net
    /\ ej' = EF_setupCompleteLambda(EReceive(ej, "setupComplete"), keyCtr)
    /\ keyCtr' = keyCtr + 1
    /\ EncryptFrame

EStoreSuccess ==
    /\ "store" \in ej.net
    /\ ej' = EF_slotUploadMetadataSuccess([EReceive(ej, "store") EXCEPT !.stored = "success"])
    /\ UNCHANGED keyCtr /\ EncryptFrame

EStoreError ==
    /\ "store" \in ej.net
    /\ \E httpReturnCode \in UpdateMetadataErrorCodes :
          ej' = EF_slotUpdateMetadataError([EReceive(ej, "store") EXCEPT !.stored = "error"],
                                           httpReturnCode)
    /\ UNCHANGED keyCtr /\ EncryptFrame

EUnlockSuccess ==
    /\ "unlock" \in ej.net
    /\ ej' = EF_slotUnlockFolderSuccess(EReceive(ej, "unlock"))
    /\ UNCHANGED keyCtr /\ EncryptFrame

EUnlockError ==
    /\ "unlock" \in ej.net
    /\ \E errorMessage \in {"forbidden"} :
          ej' = EF_slotUnlockFolderError(EReceive(ej, "unlock"), errorMessage)
    /\ UNCHANGED keyCtr /\ EncryptFrame

NextEncrypt ==
    \/ EStart \/ EFlagSuccess \/ EFlagError \/ ELockSuccess \/ ELockError
    \/ ESetupComplete \/ EStoreSuccess \/ EStoreError \/ EUnlockSuccess \/ EUnlockError

SpecEncrypt == InitEncrypt /\ [][NextEncrypt]_vars

\* C1: every uploadMetadata() call ends in exactly one uploadFinished: once the
\* job is idle again, uploadFinished was emitted as often as uploadMetadata()
\* was called, whatever the lock, upload and unlock steps answered.
C1_UploadFinishedOncePerCall == Quiescent => sig.uploadFinished = calls.upload

C3_DecryptFailureInvalidAndEmpty ==
    (fmPhase = "done" /\ fm.decryptFailed) => (~isValid(fm) /\ files(fm) = <<>>)

\* C4: a fetch whose metadata request returned 404 while the caller allowed
\* empty metadata ends with fetchFinished(200) and a valid folderMetadata()
\* without files, for a top-level folder and for a nested folder under a valid
\* V2.0 top-level folder.
C4_NotFoundAllowedGivesEmptyModel ==
    (/\ lastFetch.done /\ lastFetch.replied /\ lastFetch.http = 404 /\ lastFetch.allowEmpty
     /\ (~lastFetch.nested \/ lastFetch.rootValidV2))
    => (/\ lastFetch.code = 200
        /\ _folderMetadata.kind = "fm" /\ isValid(_folderMetadata)
        /\ files(_folderMetadata) = <<>>)

\* a fetch has ended with an error
FetchFailed == lastFetch.done /\ lastFetch.code # 200

C6_UnlockOnceBeforeReport ==
    (up.lockAcquired /\ ~up.keep)
    => (/\ up.outcome = 0 => (up.unlockReqs = 0 /\ up.finished = 0)
        /\ up.outcome # 0 => up.unlockReqs = 1
        /\ up.finished > 0 => up.unlockDone
        /\ up.finished <= 1)

\* an upload failed under the lock, the unlock request failed too, and
\* uploadFinished was emitted after it
C6_Witness ==
    /\ up.lockAcquired /\ ~up.keep /\ up.outcome = 400
    /\ up.unlockReqs = 1 /\ up.unlockDone /\ up.finished = 1
    /\ sig.unlockStatus = 403

\* C7: the code of uploadFinished is the outcome of the upload: 200 after a
\* successful upload even if the unlock request failed, the upload's error
\* code after a failed upload whatever the unlock request answered.
C7_UploadCodeDecidedByUpload ==
    (up.finished > 0 /\ up.outcome # 0)
    => (up.code = up.outcome /\ sig.uploadCode = up.outcome)

\* the upload succeeded, the unlock request failed, uploadFinished carried 200
C7_Witness ==
    /\ up.lockAcquired /\ ~up.keep /\ up.outcome = 200 /\ up.unlockDone
    /\ sig.unlockStatus = 403 /\ up.finished = 1 /\ up.code = 200

LockRequestsInFlight == CopiesIn(Request("lock", NoToken, FALSE), net)

\* C8: at no time are two lock requests of one job in flight, and no lock
\* request is in flight while the job holds the lock, also when uploadMetadata()
\* is called again before the first lock reply.
C8_AtMostOneLockRequest ==
    /\ LockRequestsInFlight <= 1
    /\ _isFolderLocked => LockRequestsInFlight = 0

C10_StoreIffLastFetchNotFound ==
    \A r \in InFlight({"store", "update"}) :
        (lastFetch.done /\ lastFetch.code = 200)
        => ((r.kind = "store") <=> (lastFetch.http = 404))

\* C11: with keepLock = true the upload sends no unlock request, on success
\* and on failure alike: uploadFinished is emitted at once with the upload's
\* code, and the token (and the lock the upload took) stays held until the
\* owner calls unlockFolder().
C11_KeepLockDefersUnlock ==
    up.keep
    => (/\ up.unlockReqs = 0
        /\ InFlight({"unlock"}) = {}
        /\ up.outcome # 0
           => (/\ up.finished = 1 /\ up.code = up.outcome
               /\ _folderToken # NoToken
               /\ up.lockAcquired => (_isFolderLocked /\ srvLock = _folderToken)))

\* a keep-lock upload took the lock, failed, and reported without unlocking
C11_Witness ==
    /\ up.keep /\ up.lockAcquired /\ up.outcome = 400 /\ up.finished = 1
    /\ up.code = 400 /\ _isFolderLocked /\ srvLock = _folderToken /\ net = EmptyBag

\* C12: no automatic retry.  After a folder-id listing, a metadata fetch, a
\* lock, an upload or an unlock request has failed, the job sends no further
\* request of that kind by itself: none is in flight in any state between the
\* failure and the owner's next fetchMetadata(), uploadMetadata() or
\* unlockFolder() call.
C12_NoAutomaticRetry ==
    /\ lastFetch.idFailed => (InFlight({"lsCol"}) = {} /\ ~lastFetch.getSent)
    /\ (lastFetch.replied /\ lastFetch.http # 200) => InFlight({"getMetadata"}) = {}
    /\ up.lockFailed => (InFlight({"lock"}) = {} /\ ~up.lockAcquired)
    /\ up.outcome \in UploadErrorCodes => InFlight({"store", "update"}) = {}
    /\ up.unlockFailed => (InFlight({"unlock"}) = {} /\ up.unlockReqs = 1)

\* the lock request of an upload failed and the job went idle
C12_Witness ==
    /\ up.lockFailed /\ net = EmptyBag /\ up.outcome = 0 /\ up.unlockReqs = 0
    /\ calls.upload > 0

\* what a file record says about its file: both names, content key, IV and tag
FileRecords(m) ==
    {[originalFilename |-> m._files[i].originalFilename,
      encryptedFilename |-> m._files[i].encryptedFilename,
      encryptionKey |-> m._files[i].encryptionKey,
      initializationVector |-> m._files[i].initializationVector,
      authenticationTag |-> m._files[i].authenticationTag] : i \in 1..Len(m._files)}

\* the last operation serialized the Model and the result was parsed again by
\* an account that is a user of the folder
RoundTripped ==
    /\ reparsed # NullMetadata
    /\ fm._isRootEncryptedFolder => Me \in UserIds(fm)

\* C13: round trip.  Parsing the document encryptedMetadata() wrote, with the
\* same account and top-level keys, yields the file records of the Model (by
\* original filename, with content key, IV and authentication tag) and its
\* Folder User set.
C13_EncryptParseRoundTrip ==
    RoundTripped
    => (/\ FileRecords(reparsed) = FileRecords(fm)
        /\ reparsed._folderUsers = fm._folderUsers)

\* C14: no downgrade.  Every non-empty document encryptedMetadata() writes
\* states a version that is not older than the version of the document the
\* Model was parsed from, whatever the capability of the server, a capability
\* below that version included.
C14_EncryptNeverDowngrades ==
    (op.name = "encryptedMetadata" /\ op.doc # EmptyDoc)
    => setupVersionFromExistingMetadata(op.doc) >= op.before._existingMetadataVersion

\* C15: the Folder Users are keyed by user id.  A Model never holds two entries
\* of one user id; an addUser() for a user the Model holds already replaces
\* that entry (the new certificate is the one kept) and leaves the number of
\* users unchanged, and an addUser() for a new user adds one entry.
C15_AddUserKeepsOneEntryPerUser ==
    fm.kind = "fm"
    => (/\ Cardinality(fm._folderUsers) = Cardinality(UserIds(fm))
        /\ (op.name = "addUser" /\ op.ret)
           => (/\ \E u \in fm._folderUsers :
                     u.userId = op.userId /\ u.certificatePem = op.certificate
               /\ Cardinality(fm._folderUsers) =
                     Cardinality(op.before._folderUsers)
                     + (IF op.userId \in UserIds(op.before) THEN 0 ELSE 1)))

\* a user of the folder was added again, with a renewed certificate
C15_Witness ==
    /\ op.name = "addUser" /\ op.ret /\ op.userId = Other
    /\ op.certificate = "bob-renewed"
    /\ FolderUser(Other, WrapFor(Other, op.before._metadataKeyForEncryption))
           \in op.before._folderUsers
    /\ Cardinality(fm._folderUsers) = 2

\* a successful addUser() or removeUser() was the last operation on the Model
UsersChanged == op.name \in {"addUser", "removeUser"} /\ op.ret

\* C16: after every successful addUser() or removeUser() on a top-level Model
\* the Model holds a newly minted metadata key, and the SHA-256 of that key is
\* in the Key Checksum Set.
C16_NewKeyChecksumRecorded ==
    UsersChanged
    => (/\ fm._metadataKeyForEncryption # NoKey
        /\ fm._metadataKeyForEncryption # op.before._metadataKeyForEncryption
        /\ calcSha256(fm._metadataKeyForEncryption) \in fm._keyChecksums)

\* a user was removed from a Model that held a key and its checksum
C16_Witness ==
    /\ op.name = "removeUser" /\ op.ret /\ op.userId = Other
    /\ op.before._metadataKeyForEncryption = 1
    /\ calcSha256(1) \in op.before._keyChecksums
    /\ fm._keyChecksums = {calcSha256(fm._metadataKeyForEncryption)}

\* C17: when addUser() or removeUser() rotates the key, the checksum of the
\* retired key is not deleted outright: it is moved from the Key Checksum Set
\* to the set of removed checksums, which the Model still exposes.
C17_RetiredChecksumMovedToRemoved ==
    (/\ UsersChanged
     /\ op.before._metadataKeyForEncryption # NoKey
     /\ calcSha256(op.before._metadataKeyForEncryption) \in op.before._keyChecksums)
    => calcSha256(op.before._metadataKeyForEncryption) \in fm._keyChecksumsRemoved

C19_RejectedUserChangeLeavesModel ==
    (/\ op.name \in {"addUser", "removeUser"}
     /\ \/ ~op.before._isRootEncryptedFolder
        \/ /\ op.name = "addUser"
           /\ (op.userId = "" \/ op.certificate = "" \/ op.certificate = KeylessCert))
    => (~op.ret /\ fm = op.before)

\* addUser() with a user id and a certificate was refused on a nested folder
C19_Witness ==
    /\ op.name = "addUser" /\ op.userId = Other /\ op.certificate = Other
    /\ ~op.before._isRootEncryptedFolder /\ op.before._isMetadataValid
    /\ ~op.ret /\ fm = op.before /\ fm._folderUsers = {}

C21_UsersIffRoot ==
    (capability = 20 /\ fmPhase = "done" /\ fm._isMetadataValid)
    => (fm._folderUsers # {} <=> fm._isRootEncryptedFolder)

\* C22: a Model whose setup did not complete (it is not valid) does not change
\* under addEncryptedFile(), removeEncryptedFile(), removeAllEncryptedFiles(),
\* addUser() and removeUser(): file list, Folder Users, metadata key and Key
\* Checksum Set are what they were.
C22_InvalidModelIsFrozen ==
    (/\ op.name \in {"addEncryptedFile", "removeEncryptedFile", "removeAllEncryptedFiles",
                      "addUser", "removeUser"}
     /\ ~op.before._isMetadataValid)
    => (/\ fm._files = op.before._files
        /\ fm._folderUsers = op.before._folderUsers
        /\ fm._metadataKeyForEncryption = op.before._metadataKeyForEncryption
        /\ fm._keyChecksums = op.before._keyChecksums)

\* the records of a Model with an original filename other than the given one
RecordsNotNamed(m, name) ==
    {m._files[i] : i \in {j \in 1..Len(m._files) : m._files[j].originalFilename # name}}

RecordsNamed(m, name) ==
    {i \in 1..Len(m._files) : m._files[i].originalFilename = name}

\* C23: files() of a valid Model never holds two records of one original
\* filename.  addEncryptedFile() leaves exactly the record it was given under
\* that name, removeEncryptedFile() leaves none, and both keep the records of
\* every other name, so the record present is always the one added last.
C23_OneRecordPerOriginalName ==
    (fmPhase = "done" /\ fm._isMetadataValid)
    => (/\ \A i, j \in 1..Len(fm._files) :
              fm._files[i].originalFilename = fm._files[j].originalFilename => i = j
        /\ (op.name = "addEncryptedFile" /\ op.before._isMetadataValid)
           => (/\ \E i \in 1..Len(fm._files) : fm._files[i] = op.file
               /\ RecordsNotNamed(fm, op.file.originalFilename)
                     = RecordsNotNamed(op.before, op.file.originalFilename))
        /\ (op.name = "removeEncryptedFile" /\ op.before._isMetadataValid)
           => (/\ RecordsNamed(fm, op.file.originalFilename) = {}
               /\ RecordsNotNamed(fm, op.file.originalFilename)
                     = RecordsNotNamed(op.before, op.file.originalFilename)))

\* the file "a.txt" was uploaded again: its new record replaced the old one
C23_Witness ==
    /\ op.name = "addEncryptedFile" /\ op.file = File("e4", "a.txt")
    /\ op.before._isMetadataValid
    /\ \E i \in 1..Len(op.before._files) : op.before._files[i] = File("e1", "a.txt")
    /\ Len(fm._files) = Len(op.before._files)
    /\ fm._files[Len(fm._files)] = File("e4", "a.txt")

\* C24: a V1.2 document with one file, parsed under a V2.0 capability, gives
\* existingMetadataVersion() = Version1_2, and encryptedMetadata() called next
\* (no addUser() in between) returns a non-empty V2.0 document holding that
\* file and a users array of exactly one entry, the current user.
C24_LegacyMigratesOnEncrypt ==
    (/\ capability = 20 /\ op.name = "encryptedMetadata" /\ op.n = 1
     /\ op.before._initialMetadata = Legacy12 /\ op.before._isMetadataValid)
    => (/\ op.before._existingMetadataVersion = Version1_2
        /\ op.doc # EmptyDoc
        /\ setupVersionFromExistingMetadata(op.doc) = Version2_0
        /\ op.doc.cipher.files = <<File("e1", "a.txt")>>
        /\ {u.userId : u \in op.doc.users} = {Me}
        /\ Cardinality(op.doc.users) = 1)

\* C30: a Model parsed from a V2.0 document is marked valid only if the
\* SHA-256 of its unwrapped metadata key is in the Key Checksum Set or that
\* set is empty; with a non-empty set that lacks the checksum the setup stops
\* before it loads a file record and does not mark the Model valid.
C30_KeyVerifiedAgainstChecksums ==
    (fmPhase = "done" /\ fm._existingMetadataVersion = Version2_0
     /\ fm._initialMetadata # EmptyDoc)
    => (/\ fm._isMetadataValid
           => (\/ fm._keyChecksums = {}
               \/ calcSha256(fm._metadataKeyForDecryption) \in fm._keyChecksums)
        /\ (/\ fm._keyChecksums # {}
            /\ calcSha256(fm._metadataKeyForDecryption) \notin fm._keyChecksums)
           => (~fm._isMetadataValid /\ fm._files = <<>>))

\* the blob of a top-level document decrypted with the user's key, but the
\* checksums inside are those of another key
C30_Witness ==
    /\ fmPhase = "done" /\ fm._existingMetadataVersion = Version2_0
    /\ fm._isRootEncryptedFolder /\ fm._metadataKeyForDecryption = 1
    /\ ~fm.decryptFailed /\ fm._initialMetadata.cipher.key = 1
    /\ fm._initialMetadata.cipher.tagOk
    /\ fm._initialMetadata.cipher.files = <<FileA, FileB>>
    /\ fm._keyChecksums = {calcSha256(2)}
    /\ ~fm._isMetadataValid /\ fm._files = <<>>

\* positions in the log of the events ev of job j
JobLog(j) == IF j = SecondJob THEN uj.log2 ELSE uj.log

Events(j, ev) == {i \in DOMAIN JobLog(j) : JobLog(j)[i].job = j /\ JobLog(j)[i].ev = ev}

\* positions in the log at which job j emitted finished with a code in codes
FinishedWith(j, codes) == {i \in Events(j, "finished") : JobLog(j)[i].code \in codes}

\* the sub-jobs started and not yet finished
RunningSubJobs == {p \in SubDirs : Events(p, "start") # {} /\ Events(p, "finished") = {}}

\* C25: in the membership job of a top-level folder at most one ReEncrypt
\* sub-job is started and not yet finished; a sub-job is started only after
\* the metadata upload of the top-level folder succeeded and after every
\* sub-job started before it finished with 200; no sub-job is started twice.
C25_SubJobsRunOneByOne ==
    /\ Cardinality(RunningSubJobs) <= 1
    /\ \A p \in SubDirs : \A i \in Events(p, "start") :
          /\ \E k \in Events(RootJob, "updateMetadataSuccess") : k < i
          /\ \A q \in SubDirs \ {p} : \A k \in Events(q, "start") :
                k < i => \E f \in FinishedWith(q, {200}) : k < f /\ f < i
    /\ \A p \in SubDirs : Cardinality(Events(p, "start")) <= 1

\* two sub-jobs were scheduled and both were started
C25_Witness ==
    /\ \A p \in SubDirs : Events(p, "scheduled") # {} /\ Events(p, "start") # {}
    /\ Events(RootJob, "finished") # {}

\* positions in the log at which a sub-job emitted finished with another code
\* than 200
FailedSubJobs == UNION {Events(p, "finished") \ FinishedWith(p, {200}) : p \in SubDirs}

\* C26: once a sub-job finished with a code other than 200 no sub-job is
\* started any more, and when the job of the top-level folder has finished it
\* had sent an unlock request after that failure and before its finished.
C26_FailedSubJobStopsAndUnlocks ==
    \A f \in FailedSubJobs :
       /\ \A p \in SubDirs : \A i \in Events(p, "start") : i < f
       /\ \A e \in Events(RootJob, "finished") :
             \E k \in Events(RootJob, "unlockRequest") : f < k /\ k < e

\* the first of two scheduled sub-jobs failed, the other one was never
\* started, and the job of the top-level folder has finished
C26_Witness ==
    /\ FailedSubJobs # {}
    /\ \E p \in SubDirs : Events(p, "scheduled") # {} /\ Events(p, "start") = {}
    /\ Events(RootJob, "finished") # {}

\* the metadata of the top-level folder was valid and uploaded, and every
\* scheduled sub-job finished with 200
MembershipChangeSucceeded ==
    /\ Events(RootJob, "updateMetadataSuccess") # {}
    /\ \A p \in SubDirs : Events(p, "scheduled") # {} => FinishedWith(p, {200}) # {}

\* C27: the job of a top-level folder emits finished(200) if and only if its
\* metadata was valid, its upload succeeded and every sub-job finished with
\* 200, whatever the final unlock request answers.
C27_FinishedCodeIsOutcomeOfChange ==
    \A e \in Events(RootJob, "finished") :
       uj.log[e].code = 200 <=> MembershipChangeSucceeded

\* positions in the log at which addUser or removeUser was called on the
\* Model of the top-level folder
UserChanges == Events(RootJob, "addUser") \cup Events(RootJob, "removeUser")

\* C28: in an Add or Remove job addUser/removeUser is called on the Model of
\* the top-level folder only after the lock request succeeded, and that Model
\* was requested and received after the lock was acquired.
C28_UserChangeUnderLock ==
    \A a \in UserChanges :
       \E l \in Events(RootJob, "lockSuccess"), g \in Events(RootJob, "getMetadata"),
          r \in Events(RootJob, "metadataReceived") :
          l < g /\ g < r /\ r < a

\* a Remove job removed the user from the Model it fetched under the lock and
\* uploaded the result
C28_Witness ==
    \E a \in UserChanges :
       /\ uj.log[a].code = 1
       /\ uj.job[RootJob]._operation = Remove
       /\ Events(RootJob, "updateMetadataSuccess") # {}

\* C29: an Add job started without a certificate asks the keychain, then the
\* server, then writes the keychain.  If the server returned a certificate the
\* job sends a lock request before it finishes and adds the user with that
\* certificate; it finishes without a lock request only if neither the
\* keychain nor the server had a certificate.
C29_CertificateResolution ==
    /\ \A s \in Events(RootJob, "getUsersPublicKeyFromServer") :
          \E k \in Events(RootJob, "fetchFromKeyChain") : k < s
    /\ \A w \in Events(RootJob, "writeCertificate") :
          \E s \in Events(RootJob, "getUsersPublicKeyFromServer") : s < w
    /\ \A w \in Events(RootJob, "writeCertificate") :
          /\ \A e \in Events(RootJob, "finished") :
                \E l \in Events(RootJob, "lockRequest") : w < l /\ l < e
          /\ \A a \in Events(RootJob, "addUser") :
                uj.job[RootJob]._folderUserCertificate = uj.server[Other]
    /\ \A k \in Events(RootJob, "fetchFromKeyChain") :
          \A e \in Events(RootJob, "finished") :
             Events(RootJob, "lockRequest") = {}
             => uj.keychain[Other] = "" /\ uj.server[Other] = ""

\* the Model was set up from a legacy document whose stored checksum differs
\* from the one computed over the parsed files and the document's key
LegacyChecksumMismatch ==
    /\ fmPhase = "done" /\ fm._initialMetadata.kind = "json"
    /\ fm._existingMetadataVersion \in {Version1, Version1_2}
    /\ ~checkMetadataKeyChecksum(fm, fm._initialMetadata.metadataKey,
                                 fm._initialMetadata.checksum)

\* C31 as stated: a legacy (V1 or V1.2) document whose stored checksum differs
\* from the computed one gives a valid Model if and only if the account's
\* shouldSkipE2eeMetadataChecksumValidation flag is set.
C31_LegacyMismatchValidIffSkip ==
    LegacyChecksumMismatch => (fm._isMetadataValid <=> skipChecksumValidation)

\* C31, amended: the checksum is compared for a V1.2 document whose metadata
\* key the account could decrypt; on a mismatch the Model is valid if and only
\* if the flag is set.  For a V1 document whose key was decrypted the checksum
\* is not compared and the Model is valid.
C31_V12MismatchValidIffSkip ==
    LegacyChecksumMismatch /\ fm._metadataKeyForDecryption # NoKey =>
        IF fm._existingMetadataVersion = Version1_2
        THEN fm._isMetadataValid <=> skipChecksumValidation
        ELSE fm._isMetadataValid

\* a V1.2 document with a wrong checksum was accepted because the flag is set
C31_Witness ==
    /\ LegacyChecksumMismatch /\ fm._metadataKeyForDecryption # NoKey
    /\ fm._existingMetadataVersion = Version1_2
    /\ skipChecksumValidation /\ fm._isMetadataValid

\* the Model under construction is not the top-level folder's and was handed
\* no keys: it looks its top-level folder up
LooksUpRoot ==
    /\ fm.kind = "fm" /\ ~fm._isRootEncryptedFolder
    /\ sig.setup.listings > 0

\* C32: a Model of a folder below the top level, constructed without keys,
\* sends at most one listing and one metadata request for its top-level
\* folder, builds that folder's Model as a top-level one, and whatever the
\* lookup answers calls emitSetupComplete() once, when the lookup is over;
\* its timer emits setupComplete exactly once.
C32_OneLookupOneSetupComplete ==
    /\ sig.setup.listings <= 1 /\ sig.setup.fetches <= sig.setup.listings
    /\ rootFm.kind = "fm" => rootFm._isRootEncryptedFolder
    /\ fmPhase = "rootId" =>
          sig.setup.scheduled = 0 /\ Cardinality(InFlight({"rootLsCol"})) = 1
    /\ fmPhase = "rootMeta" =>
          sig.setup.scheduled = 0 /\ Cardinality(InFlight({"rootGetMetadata"})) = 1
    /\ fmPhase = "rootSetup" => sig.setup.scheduled = 0 /\ rootFm.kind = "fm"
    /\ fmPhase = "timer" => sig.setup.scheduled = 1 /\ sig.setup.emitted = 0
    /\ fmPhase = "done" => sig.setup.scheduled = 1 /\ sig.setup.emitted = 1

\* setupComplete was emitted after a lookup whose listing returned no folder
\* infos or failed
C32_Witness ==
    /\ LooksUpRoot /\ fmPhase = "done"
    /\ sig.setup.fetches = 0 /\ sig.setup.emitted = 1

\* C33: in an Add or Remove job, once the lock request succeeded, finished is
\* emitted only after an unlock request was sent, whatever ended the job.
C33_UnlockBeforeFinishedOnceLocked ==
    \A l \in Events(RootJob, "lockSuccess") : \A e \in Events(RootJob, "finished") :
       \E k \in Events(RootJob, "unlockRequest") : l < k /\ k < e

\* C34: a ReEncrypt sub-job, which borrows the token of the job that scheduled
\* it, sends neither a lock nor an unlock request; the lock is released by
\* the job of the top-level folder alone, with a single unlock request sent
\* after the last sub-job finished or after a sub-job failed.
C34_OnlyRootUnlocks ==
    /\ \A p \in SubDirs : Events(p, "lockRequest") = {} /\ Events(p, "unlockRequest") = {}
    /\ Cardinality(Events(RootJob, "unlockRequest")) <= 1
    /\ \A k \in Events(RootJob, "unlockRequest") :
          \A p \in SubDirs : \A i \in Events(p, "scheduled") :
             i < k => \/ FailedSubJobs # {}
                      \/ \E f \in Events(p, "finished") : f < k

\* C35: the ReEncrypt sub-jobs a root job schedules after it rotated the key
\* are handed a checksum set that contains the SHA-256 of the decryption key
\* (the key from before the rotation) they are handed with it.
C35_SubJobChecksumsCoverDecryptionKey ==
    \A p \in SubDirs \cap DOMAIN uj.job :
        calcSha256(uj.job[p]._metadataKeyForDecryption) \in uj.job[p]._keyChecksums

\* codes with which the membership job of the top-level folder finished other
\* than 200
RootFailures == Events(RootJob, "finished") \ FinishedWith(RootJob, {200})

\* C36: an UpdateMigratedE2eeMetadataJob whose membership job finished with a
\* code other than 200 has finished, and with a status other than Success.
C36_MigratedJobSurfacesFailure ==
    (uj.migrated._state # "None" /\ RootFailures # {})
    => (/\ uj.migrated.finished # <<>>
        /\ \A i \in DOMAIN uj.migrated.finished : uj.migrated.finished[i] # "Success")

\* C37: EncryptFolderJob emits finished(Success) only if the request storing
\* the folder's initial metadata succeeded; once the store request failed every
\* finished it emits carries Error, whatever the unlock request answers.
C37_SuccessOnlyAfterStore ==
    \A i \in DOMAIN ej.finished :
       /\ ej.finished[i].status = "Success" => ej.stored = "success"
       /\ ej.stored = "error" => ej.finished[i].status = "Error"

\* C38: the orchestration job never has a store or update request in flight
\* whose metadata payload is empty.
C38_NoEmptyPayloadSent ==
    \A r \in InFlight({"store", "update"}) : ~r.payloadEmpty

\* C39: in the orchestration job a non-empty folder token denotes a lock that
\* is still held: once an unlock request succeeded the job no longer holds the
\* released token, and every upload request presents the token of the lock
\* held at the time.
C39_TokenDenotesHeldLock ==
    /\ _folderToken # NoToken => srvLock = _folderToken
    /\ \A r \in InFlight({"store", "update"}) : r.token # NoToken /\ r.token = srvLock

\* C40: when two Add jobs for different user ids run on one account, a job
\* that resolved its user's certificate itself passes to addUser the
\* certificate of its own user id.
C40_OwnCertificateAdded ==
    \A j \in TopLevelJobs \cap DOMAIN uj.job :
       (Events(j, "fetchFromKeyChain") # {} /\ Events(j, "addUser") # {})
       => uj.job[j]._folderUserCertificate = uj.job[j]._folderUserId

====
